---- MODULE Spec2Model ----
(***************************************************************************)
(* Model of the oax pipeline engine (packages/cli/src/pipeline.ts, kept in *)
(* src/packages/cli/src/config.ts lines 77-266): class Pipeline, its       *)
(* run() loop, the artifact writer and the provenance comment.             *)
(*                                                                         *)
(* A Pipeline instance is constructed once with a configuration and may    *)
(* be run several times, one run after the other.  The variables marked    *)
(* "history" record what the current run did; the engine's actions never   *)
(* read them.  A definition named X_<fault> is X with a fault seeded in    *)
(* it, used to show that a property depends on X.                          *)
(***************************************************************************)
EXTENDS Integers, Sequences, FiniteSets, TLC

VARIABLES
  config,        \* this.config: [steps, input, outputDir], fixed at construction
  outputs,       \* this.outputs: Record<string, StepOutput>, one object per instance
  pc,            \* position of run(): idle, mkdir, load, loop, proc, write, done, failed
  idx,           \* index + 1 of the loop of run()
  inputs,        \* the local `inputs` of run()
  disk,          \* the file system under outputDir: path -> [text, complete]
  pendingWrite,  \* fs.writeFile calls issued and not yet settled
  runNo,         \* number of calls of run() so far; also the wall clock
  contexts,      \* history: the StepContext object handed to each step
  seenAtInvoke,  \* history: what previousOutputs showed when process was invoked
  invoked,       \* history: the steps whose process was invoked, in order
  produced,      \* history: the StepOutput each step's process returned
  written,       \* history: the file write each step completed
  console,       \* history: what the run printed
  thrown,        \* history: the error raised inside the try block, and by which step
  loads,         \* history: number of reads of the input file
  result,        \* how the promise of run() settled
  call           \* one call of a function outside the engine: its arguments, then its outcome

vars == <<config, outputs, pc, idx, inputs, disk, pendingWrite, runNo, contexts,
          seenAtInvoke, invoked, produced, written, console, thrown, loads, result, call>>

(***************************************************************************)
(* Bounds of the model.                                                    *)
(***************************************************************************)
MaxSteps == 3
MaxRuns == 2
MaxArtifactSteps == 1
MaxMembers == 2
MaxProps == 2
MaxItems == 2
MaxComponents == 2
MaxCalls == 12
MaxPaths == 2
MaxParams == 2
MaxResponses == 2

(***************************************************************************)
(* The values steps, files and errors are drawn from.                      *)
(***************************************************************************)
StepNameList == <<"oas-parser", "zod-generator", "ky-generator", "react-query-generator">>
OutputFileList == <<"schemas.ts", "parsed.json">>
ArtifactFileList == <<"schemas.ts", "parsed.json", "Theme.CSS", "index.HTML", "README", ".env">>
OutputNames == {"parsed-oas"}
Contents == {[kind |-> "string", v |-> "code"], [kind |-> "object", v |-> "data"]}
ProcessErrors == {[message |-> "No input files found"], [message |-> "boom"]}
FsErrors == {[message |-> "EACCES"]}
InputTexts == {[readable |-> TRUE, json |-> TRUE, v |-> "petstore"],
               [readable |-> TRUE, json |-> FALSE, v |-> "not json"],
               [readable |-> FALSE, json |-> FALSE, v |-> ""]}

EmptyMap == [x \in {} |-> x]
NoError == [message |-> ""]

(***************************************************************************)
(* Step, StepOutput, StepContext                                           *)
(***************************************************************************)
StepOutputs == [name : OutputNames, content : Contents]

\* The step lists a configuration can hold; the engine validates none of it,
\* so names and output files may repeat.  Names are taken up to renaming (a
\* step uses a name already used or the first unused one); a step declares no
\* output file ("") or the file of its position, two files in turn.
StepNames == {StepNameList[j] : j \in 1..Len(StepNameList)}

FileOfPosition(i) == OutputFileList[((i - 1) % Len(OutputFileList)) + 1]

StepLists ==
  UNION { { s \in [1..n -> [name : StepNames, outputFile : {""} \cup
                                      {OutputFileList[j] : j \in 1..Len(OutputFileList)}]] :
              \A i \in 1..n :
                /\ s[i].outputFile \in {"", FileOfPosition(i)}
                /\ \E j \in 1..Len(StepNameList) :
                     /\ s[i].name = StepNameList[j]
                     /\ \A l \in 1..(j - 1) : \E h \in 1..(i - 1) : s[h].name = StepNameList[l] }
          : n \in 1..MaxSteps }

\* The step lists of the artifact writer's specification: few steps, named by
\* position, each with no output file or any file of ArtifactFileList.
ArtifactStepLists ==
  UNION { { s \in [1..n -> [name : StepNames, outputFile : {""} \cup
                                      {ArtifactFileList[j] : j \in 1..Len(ArtifactFileList)}]] :
              \A i \in 1..n : s[i].name = StepNameList[i] }
          : n \in 1..MaxArtifactSteps }

\* defineConfig: outputDir defaults to "oax", input is kept only when truthy
defineConfig(steps, input) == [outputDir |-> "oax", steps |-> steps, input |-> input]

NumSteps == Len(config.steps)
StepAt(k) == config.steps[k]


(***************************************************************************)
(* Artifact writer: getCommentForFileType, addAutogenerationComment        *)
(***************************************************************************)
Line(s) == [start |-> s]
Block(s, e) == [start |-> s, end |-> e]

commentMap ==
  [ext \in {".js", ".ts", ".jsx", ".tsx", ".scss", ".sass", ".less", ".rs", ".go",
            ".java", ".c", ".cpp", ".h", ".hpp", ".cs", ".php"} |-> Line("//")]
  @@ [ext \in {".py", ".sh", ".bash", ".yaml", ".yml", ".toml", ".ini", ".conf",
               ".rb", ".pl", ".r", ".dockerfile", ".gitignore", ".env"} |-> Line("#")]
  @@ [ext \in {".sql", ".lua"} |-> Line("--")]
  @@ [ext \in {".vim"} |-> Line("\"")]
  @@ [ext \in {".css"} |-> Block("/*", "*/")]
  @@ [ext \in {".html", ".xml"} |-> Block("<!--", "-->")]

Null == [null |-> TRUE]

getCommentForFileType(ext) == IF ext \in DOMAIN commentMap THEN commentMap[ext] ELSE Null

\* the text of a written file: the comment's start and end markers, the
\* timestamp of the comment (0 when there is no comment) and the content
addAutogenerationComment(content, fileExt, timestamp) ==
  LET commentInfo == getCommentForFileType(fileExt) IN
  IF commentInfo = Null
    THEN [start |-> "", end |-> "", timestamp |-> 0, content |-> content]
    ELSE IF "end" \in DOMAIN commentInfo
      THEN [start |-> commentInfo.start, end |-> commentInfo.end,
            timestamp |-> timestamp, content |-> content]
      ELSE [start |-> commentInfo.start, end |-> "",
            timestamp |-> timestamp, content |-> content]

\* path.extname on the file names of the model: from the last dot of the base
\* name on, and "" when there is no dot or the only dot starts the name
extname(file) ==
  CASE file = "schemas.ts" -> ".ts"
    [] file = "parsed.json" -> ".json"
    [] file = "Theme.CSS" -> ".CSS"
    [] file = "index.HTML" -> ".HTML"
    [] OTHER -> ""

\* fault: the extension is looked up as it is spelled
toLowerCase_asSpelled(ext) == ext

\* String.prototype.toLowerCase on the extensions of the model
toLowerCase(ext) ==
  CASE ext = ".CSS" -> ".css"
    [] ext = ".HTML" -> ".html"
    [] OTHER -> ext

\* path.extname(step.outputFile).toLowerCase()
extnameLower(file) == toLowerCase(extname(file))

\* strings pass through, structured content is pretty-printed with JSON.stringify
Serialize(content) ==
  IF content.kind = "string"
    THEN [text |-> content.v, pretty |-> FALSE]
    ELSE [text |-> content.v, pretty |-> TRUE]

outputPath(step) == <<config.outputDir, step.outputFile>>

\* new Date(): the clock advances at least from one run to the next
Now == runNo

FileText(step, output) ==
  addAutogenerationComment(Serialize(output.content), extnameLower(step.outputFile), Now)

(***************************************************************************)
(* Pipeline.run                                                            *)
(***************************************************************************)
\* fault: keyed by the name field of the returned output
OutputKey_outputName(step, output) == output.name

\* this.outputs[step.name] = output: the key is the step's name
OutputKey(step, output) == step.name

\* record[key] = value on a JavaScript object
Put(record, key, value) ==
  [n \in DOMAIN record \cup {key} |-> IF n = key THEN value ELSE record[n]]

\* fault: only the latest output is kept
StoreOutput_onlyLatest(outs, key, output) == [n \in {key} |-> output]

\* this.outputs[step.name] = output: the other entries of the map stay
StoreOutput(outs, key, output) == Put(outs, key, output)

\* fault: previousOutputs: {...this.outputs}, a copy made at the invocation
PreviousOutputsOf_copy(outs) == [ref |-> "copy", val |-> outs]

\* previousOutputs: this.outputs -- the context holds the engine's own map object
PreviousOutputsOf(outs) == [ref |-> "this.outputs", val |-> EmptyMap]

\* what a previousOutputs field shows when it is read
Shown(previousOutputs) ==
  IF previousOutputs.ref = "this.outputs" THEN outputs ELSE previousOutputs.val

BuildContext(ins, dir, outs) ==
  [inputs |-> ins, outputDir |-> dir, previousOutputs |-> PreviousOutputsOf(outs)]

\* fault: the write is issued and not awaited
AwaitsWrite_not == FALSE

\* await fs.writeFile(outputPath, content): the loop goes on when the write settled
AwaitsWrite == TRUE

\* fault: the report does not name the step
FailureReport_unnamed(step, error) ==
  [level |-> "error", msg |-> "Step failed", step |-> "", error |-> error]

\* console.error(`Step failed: ${step.name}`, error)
FailureReport(step, error) ==
  [level |-> "error", msg |-> "Step failed", step |-> step.name, error |-> error]

\* fault: a new error naming the step is thrown instead
Rethrow_wrapped(step, error) == [message |-> "Step failed", step |-> step.name]

\* throw error: the caught value itself
Rethrow(step, error) == error

\* fault: the loop body is entered again for the same step
AfterStepFailure_retry == "loop"

\* the catch block leaves the loop and the function: no retry, no next step
AfterStepFailure == "failed"

\* fault: the files written by the run are removed
DiskAfterFailure_rollback(d) ==
  [p \in DOMAIN d \ {written[j].path : j \in DOMAIN written} |-> d[p]]

\* the catch block touches no file
DiskAfterFailure(d) == d

\* fault: the failure is swallowed and the loop entered
AfterLoadError_swallowed == "loop"

\* readFile and JSON.parse are outside any try: the rejection leaves run()
AfterLoadError == "failed"

Rejected(error) == [kind |-> "rejected", error |-> error]
Pending == [kind |-> "pending", error |-> NoError]
Fulfilled == [kind |-> "fulfilled", error |-> NoError]
NoThrow == [step |-> 0, error |-> NoError, during |-> ""]

\* the fields of a Pipeline after its construction; no run was called yet
Constructed ==
  /\ outputs = EmptyMap
  /\ pc = "idle"
  /\ idx = 0
  /\ inputs = EmptyMap
  /\ disk = EmptyMap
  /\ pendingWrite = {}
  /\ runNo = 0
  /\ contexts = EmptyMap
  /\ seenAtInvoke = EmptyMap
  /\ invoked = <<>>
  /\ produced = EmptyMap
  /\ written = EmptyMap
  /\ console = <<>>
  /\ thrown = NoThrow
  /\ loads = 0
  /\ result = Pending

\* no function outside the engine is being called
NoCall == [fn |-> "", state |-> "none"]

Init ==
  /\ config \in {defineConfig(s, i) : s \in StepLists, i \in {"", "api.json"}}
  /\ Constructed
  /\ call = NoCall

\* run() is called: the output directory is resolved and its mkdir issued
RunStart ==
  /\ pc \in {"idle", "done", "failed"}
  /\ pendingWrite = {}
  /\ runNo < MaxRuns
  /\ runNo' = runNo + 1
  /\ inputs' = EmptyMap
  /\ pc' = "mkdir"
  /\ idx' = 1
  /\ contexts' = EmptyMap
  /\ seenAtInvoke' = EmptyMap
  /\ invoked' = <<>>
  /\ produced' = EmptyMap
  /\ written' = EmptyMap
  /\ console' = <<>>
  /\ thrown' = NoThrow
  /\ loads' = 0
  /\ result' = Pending
  /\ UNCHANGED <<call, config, outputs, disk, pendingWrite>>

\* await fs.mkdir(outputDir, {recursive: true}) resolves; `inputs` starts empty
MkdirDone ==
  /\ pc = "mkdir"
  /\ pc' = IF config.input # "" THEN "load" ELSE "loop"
  /\ UNCHANGED <<call, config, outputs, idx, inputs, disk, pendingWrite, runNo, contexts,
                 seenAtInvoke, invoked, produced, written, console, thrown, loads, result>>

\* the mkdir rejects: it is outside any try, the rejection leaves run()
MkdirFails ==
  /\ pc = "mkdir"
  /\ \E error \in FsErrors :
       /\ thrown' = [step |-> 0, error |-> error, during |-> "mkdir"]
       /\ result' = Rejected(error)
  /\ pc' = "failed"
  /\ UNCHANGED <<call, config, outputs, idx, inputs, disk, pendingWrite, runNo, contexts,
                 seenAtInvoke, invoked, produced, written, console, loads>>

\* inputs[this.config.input] = {name, content: JSON.parse(await readFile(...))}
LoadInput ==
  /\ pc = "load"
  /\ \E text \in InputTexts :
       /\ loads' = loads + 1
       /\ IF text.readable /\ text.json
            THEN /\ inputs' = Put(inputs, config.input,
                                  [name |-> config.input, content |-> text.v])
                 /\ pc' = "loop"
                 /\ result' = result
                 /\ thrown' = thrown
            ELSE /\ inputs' = inputs
                 /\ pc' = AfterLoadError
                 /\ thrown' = [step |-> 0, during |-> "load",
                               error |-> [message |-> IF text.readable
                                                        THEN "SyntaxError" ELSE "ENOENT"]]
                 /\ result' = IF AfterLoadError = "failed"
                                THEN Rejected([message |-> IF text.readable
                                                             THEN "SyntaxError" ELSE "ENOENT"])
                                ELSE result
  /\ UNCHANGED <<call, config, outputs, idx, disk, pendingWrite, runNo, contexts, seenAtInvoke,
                 invoked, produced, written, console>>

\* top of the loop body: log, build the context, call step.process(context)
Invoke ==
  /\ pc = "loop"
  /\ idx <= NumSteps
  /\ contexts' = Put(contexts, idx, BuildContext(inputs, config.outputDir, outputs))
  /\ seenAtInvoke' = Put(seenAtInvoke, idx, outputs)
  /\ invoked' = Append(invoked, idx)
  /\ console' = Append(console, [level |-> "log", msg |-> "Step", step |-> StepAt(idx).name,
                                 error |-> NoError])
  /\ pc' = "proc"
  /\ UNCHANGED <<call, config, outputs, idx, inputs, disk, pendingWrite, runNo, produced, written,
                 thrown, loads, result>>

\* step.process resolves: the output is stored; the write is issued when the
\* step declares an output file, else the step is done (context only)
ProcessReturns ==
  /\ pc = "proc"
  /\ \E output \in StepOutputs :
       LET step == StepAt(idx) IN
       /\ outputs' = StoreOutput(outputs, OutputKey(step, output), output)
       /\ produced' = Put(produced, idx, output)
       /\ IF step.outputFile # ""
            THEN /\ pendingWrite' = pendingWrite \cup
                        {[step |-> idx, path |-> outputPath(step), text |-> FileText(step, output)]}
                 /\ IF AwaitsWrite
                      THEN pc' = "write" /\ idx' = idx /\ console' = console
                      ELSE /\ pc' = "loop"
                           /\ idx' = idx + 1
                           /\ console' = Append(console, [level |-> "log", msg |-> "Step completed",
                                                          step |-> step.name, error |-> NoError])
            ELSE /\ pendingWrite' = pendingWrite
                 /\ pc' = "loop"
                 /\ idx' = idx + 1
                 /\ console' = Append(console, [level |-> "log", msg |-> "Step completed",
                                                step |-> step.name, error |-> NoError])
  /\ UNCHANGED <<call, config, inputs, disk, runNo, contexts, seenAtInvoke, invoked, written,
                 thrown, loads, result>>

\* step.process rejects: the catch block reports and rethrows
ProcessThrows ==
  /\ pc = "proc"
  /\ \E error \in ProcessErrors :
       LET step == StepAt(idx) IN
       /\ thrown' = [step |-> idx, error |-> error, during |-> "process"]
       /\ console' = Append(console, FailureReport(step, error))
       /\ pc' = AfterStepFailure
       /\ result' = IF AfterStepFailure = "failed" THEN Rejected(Rethrow(step, error)) ELSE result
       /\ disk' = DiskAfterFailure(disk)
  /\ UNCHANGED <<call, config, outputs, idx, inputs, pendingWrite, runNo, contexts, seenAtInvoke,
                 invoked, produced, written, loads>>

\* fs.writeFile resolves: the file holds the whole text
WriteDone ==
  /\ \E w \in pendingWrite :
       /\ pendingWrite' = pendingWrite \ {w}
       /\ disk' = Put(disk, w.path, [text |-> w.text, complete |-> TRUE])
       /\ written' = Put(written, w.step, [path |-> w.path, text |-> w.text])
       /\ IF pc = "write" /\ w.step = idx
            THEN /\ pc' = "loop"
                 /\ idx' = idx + 1
                 /\ console' = Append(console, [level |-> "log", msg |-> "Step completed",
                                                step |-> StepAt(idx).name, error |-> NoError])
            ELSE UNCHANGED <<pc, idx, console>>
  /\ UNCHANGED <<call, config, outputs, inputs, runNo, contexts, seenAtInvoke, invoked, produced,
                 thrown, loads, result>>

\* fs.mkdir of the file's directory or fs.writeFile rejects, leaving the file
\* as it was or truncated; the rejection is raised inside the try block
WriteFails ==
  /\ pc = "write"
  /\ \E w \in pendingWrite, error \in FsErrors, truncated \in BOOLEAN :
       LET step == StepAt(idx) IN
       /\ w.step = idx
       /\ pendingWrite' = pendingWrite \ {w}
       /\ disk' = IF truncated
                    THEN Put(disk, w.path, [text |-> w.text, complete |-> FALSE])
                    ELSE disk
       /\ thrown' = [step |-> idx, error |-> error, during |-> "write"]
       /\ console' = Append(console, FailureReport(step, error))
       /\ pc' = AfterStepFailure
       /\ result' = IF AfterStepFailure = "failed" THEN Rejected(Rethrow(step, error)) ELSE result
  /\ UNCHANGED <<call, config, outputs, idx, inputs, runNo, contexts, seenAtInvoke, invoked,
                 produced, written, loads>>

\* the loop is over: the run resolves
Finish ==
  /\ pc = "loop"
  /\ idx > NumSteps
  /\ pc' = "done"
  /\ result' = Fulfilled
  /\ console' = Append(console, [level |-> "log", msg |-> "Pipeline completed", step |-> "",
                                 error |-> NoError])
  /\ UNCHANGED <<call, config, outputs, idx, inputs, disk, pendingWrite, runNo, contexts,
                 seenAtInvoke, invoked, produced, written, thrown, loads>>

Next ==
  \/ RunStart
  \/ MkdirDone
  \/ MkdirFails
  \/ LoadInput
  \/ Invoke
  \/ ProcessReturns
  \/ ProcessThrows
  \/ WriteDone
  \/ WriteFails
  \/ Finish

Spec == Init /\ [][Next]_vars

\* The engine on configurations that vary the output file of the steps
InitArtifacts ==
  /\ config \in {defineConfig(s, i) : s \in ArtifactStepLists, i \in {"", "api.json"}}
  /\ Constructed
  /\ call = NoCall

SpecArtifacts == InitArtifacts /\ [][Next]_vars

TypeOK ==
  /\ pc \in {"idle", "mkdir", "load", "loop", "proc", "write", "done", "failed"}
  /\ idx \in 0..(NumSteps + 1)
  /\ runNo \in 0..MaxRuns
  /\ DOMAIN outputs \subseteq {StepNameList[j] : j \in 1..Len(StepNameList)}


(***************************************************************************)
(* The built-in steps' lookup of their input in the context map            *)
(* (steps/zod-generator.ts, steps/ky-generator.ts,                         *)
(* steps/react-query-generator.ts): one call of a step's process with a    *)
(* context drawn from the maps an engine run can hand to it.               *)
(***************************************************************************)
ContextNames == {"oas-parser", "zod-generator", "ky-generator", "querykey-generator"}

\* the content of an entry: generated code, an empty string, parsed data
EntryContents == Contents \cup {[kind |-> "string", v |-> ""]}

\* a StepOutput in the map; only the zod generator's meta carries operations
ContextEntries == [content : EntryContents, operations : BOOLEAN]

PreviousOutputs ==
  UNION { { m \in [D -> ContextEntries] :
              \A n \in D : m[n].operations => n = "zod-generator" }
          : D \in SUBSET ContextNames }

\* the options a step was configured with; "" is an option that was not given
NoOptions ==
  [inputStep |-> "", oasInputStep |-> "", clientInputStep |-> "",
   queryKeyInputStep |-> "", schemaInputStep |-> ""]

StepOptions ==
  {NoOptions,
   [NoOptions EXCEPT !.inputStep = "querykey-generator"],
   [NoOptions EXCEPT !.oasInputStep = "zod-generator", !.schemaInputStep = "oas-parser"]}

Undefined == [kind |-> "undefined", v |-> ""]

\* options.x || "default"
OrDefault(option, default) == IF option # "" THEN option ELSE default

\* context.previousOutputs[name]?.content
ContentOf(previousOutputs, name) ==
  IF name \in DOMAIN previousOutputs THEN previousOutputs[name].content ELSE Undefined

\* fault: only a missing value counts
Not_onlyUndefined(value) == value.kind = "undefined"

\* !value on a content: undefined and the empty string are falsy
Not(value) == value.kind = "undefined" \/ (value.kind = "string" /\ value.v = "")

NoOutputFound(name) == [message |-> "No output found from step", step |-> name]
NoOperationsFound(name) == [message |-> "No operations found in step", step |-> name]

Raised(error) == [state |-> "raised", error |-> error, output |-> ""]
Returned(outputName) == [state |-> "returned", error |-> NoOutputFound(""), output |-> outputName]

zodGeneratorProcess(options, previousOutputs) ==
  LET inputStep == OrDefault(options.inputStep, "oas-parser")
      oasData == ContentOf(previousOutputs, inputStep) IN
  IF Not(oasData)
    THEN Raised(NoOutputFound(inputStep))
    ELSE Returned("zod-schemas-and-operations")

kyGeneratorProcess(options, previousOutputs) ==
  LET inputStep == OrDefault(options.inputStep, "zod-generator") IN
  IF inputStep \notin DOMAIN previousOutputs
    THEN Raised(NoOutputFound(inputStep))
    ELSE IF ~previousOutputs[inputStep].operations
      THEN Raised(NoOperationsFound(inputStep))
      ELSE Returned("ky-client")

reactQueryGeneratorProcess(options, previousOutputs) ==
  LET oasInputStep == OrDefault(options.oasInputStep, "oas-parser")
      clientInputStep == OrDefault(options.clientInputStep, "ky-generator")
      queryKeyInputStep == OrDefault(options.queryKeyInputStep, "querykey-generator")
      schemaInputStep == OrDefault(options.schemaInputStep, "zod-generator") IN
  IF Not(ContentOf(previousOutputs, oasInputStep))
    THEN Raised(NoOutputFound(oasInputStep))
  ELSE IF Not(ContentOf(previousOutputs, clientInputStep))
    THEN Raised(NoOutputFound(clientInputStep))
  ELSE IF Not(ContentOf(previousOutputs, queryKeyInputStep))
    THEN Raised(NoOutputFound(queryKeyInputStep))
  ELSE IF Not(ContentOf(previousOutputs, schemaInputStep))
    THEN Raised(NoOutputFound(schemaInputStep))
  ELSE Returned("react-query-hooks")

\* no Pipeline is running: the engine's variables stay as constructed
NoPipeline ==
  /\ config = defineConfig(<<>>, "")
  /\ Constructed

engineVars == <<config, outputs, pc, idx, inputs, disk, pendingWrite, runNo, contexts,
                seenAtInvoke, invoked, produced, written, console, thrown, loads, result>>

InitSteps ==
  /\ NoPipeline
  /\ call \in {[fn |-> f, options |-> o, previousOutputs |-> m,
                state |-> "ready", error |-> NoOutputFound(""), output |-> ""] :
                 f \in {"zodGenerator", "kyGenerator", "reactQueryGenerator"},
                 o \in StepOptions, m \in PreviousOutputs}

Settle(outcome) ==
  call' = [call EXCEPT !.state = outcome.state, !.error = outcome.error,
                       !.output = outcome.output]

ZodProcess ==
  /\ call.state = "ready"
  /\ call.fn = "zodGenerator"
  /\ Settle(zodGeneratorProcess(call.options, call.previousOutputs))
  /\ UNCHANGED engineVars

KyProcess ==
  /\ call.state = "ready"
  /\ call.fn = "kyGenerator"
  /\ Settle(kyGeneratorProcess(call.options, call.previousOutputs))
  /\ UNCHANGED engineVars

ReactQueryProcess ==
  /\ call.state = "ready"
  /\ call.fn = "reactQueryGenerator"
  /\ Settle(reactQueryGeneratorProcess(call.options, call.previousOutputs))
  /\ UNCHANGED engineVars

NextSteps ==
  \/ ZodProcess
  \/ KyProcess
  \/ ReactQueryProcess

SpecSteps == InitSteps /\ [][NextSteps]_vars

(***************************************************************************)
(* The schema-to-code translator (packages/cli/src/generator.ts, kept in   *)
(* src/unnamed/part_013): generateZodCodeFromSchema and the generators it  *)
(* dispatches to.                                                          *)
(*                                                                         *)
(* A schema is a record of all the keywords the translator reads; a        *)
(* keyword holds <<>> when the schema object does not have it and <<v>>    *)
(* when it has it with value v.  Generated code is a sequence of tokens,   *)
(* one per call of a chain, in the order of the text: a token has the      *)
(* name of the call (f), its number or string argument (n, s) and the      *)
(* fragments it encloses (l).                                              *)
(***************************************************************************)
NoSchema ==
  [ref |-> <<>>, allOf |-> <<>>, anyOf |-> <<>>, oneOf |-> <<>>, discriminator |-> <<>>,
   nullable |-> <<>>, type |-> <<>>, enum |-> <<>>, format |-> <<>>, minLength |-> <<>>,
   maxLength |-> <<>>, pattern |-> <<>>, minimum |-> <<>>, maximum |-> <<>>,
   exclusiveMinimum |-> <<>>, exclusiveMaximum |-> <<>>, multipleOf |-> <<>>,
   items |-> <<>>, minItems |-> <<>>, maxItems |-> <<>>, uniqueItems |-> <<>>,
   properties |-> <<>>, required |-> <<>>, additionalProperties |-> <<>>,
   minProperties |-> <<>>, maxProperties |-> <<>>, deprecated |-> <<>>]

\* schema.k !== undefined, "k" in schema
Has(keyword) == keyword # <<>>

\* schema.k === true
IsTrue(keyword) == keyword = <<TRUE>>

\* the value of exclusiveMinimum / exclusiveMaximum: a boolean or a number
BoolValue(b) == [kind |-> "boolean", b |-> b, n |-> 0]
NumberValue(n) == [kind |-> "number", b |-> FALSE, n |-> n]

Tok(f) == [f |-> f, n |-> 0, s |-> "", l |-> <<>>]
TokN(f, n) == [f |-> f, n |-> n, s |-> "", l |-> <<>>]
TokS(f, str) == [f |-> f, n |-> 0, s |-> str, l |-> <<>>]
TokL(f, str, list) == [f |-> f, n |-> 0, s |-> str, l |-> list]

\* the outcome of a translation: the code returned, or the error raised
Code(code) == [error |-> "", code |-> code]
Throws(error) == [error |-> error, code |-> <<>>]

ZAny == <<Tok("z.any")>>

\* schema.$ref.split("/").pop() on the references of the model
LastSegment(ref) ==
  CASE ref = "#/components/schemas/Pet" -> "Pet"
    [] ref = "#/components/schemas/Owner" -> "Owner"
    [] ref = "#/components/schemas/Tag" -> "Tag"
    [] ref = "#/components/schemas/Pet/" -> ""
    [] OTHER -> ref

\* the codes of a list of outcomes, and the first error among them
CodesOf(results) == [i \in 1..Len(results) |-> results[i].code]

FirstError(results) ==
  IF \E i \in 1..Len(results) : results[i].error # ""
    THEN results[CHOOSE i \in 1..Len(results) :
                   /\ results[i].error # ""
                   /\ \A h \in 1..(i - 1) : results[h].error = ""].error
    ELSE ""

RECURSIVE Intersections(_, _)
\* the callback of schemas.reduce applied to acc and the elements from index k on
Intersections(acc, rest) ==
  IF rest = <<>> THEN acc
  ELSE Intersections(<<TokL("z.intersection", "", <<acc, Head(rest)>>)>>, Tail(rest))

\* schemas.reduce(callback) without an initial value: a TypeError on an empty array
Reduce(schemas) ==
  IF schemas = <<>> THEN Throws("TypeError: Reduce of empty array with no initial value")
  ELSE Code(Intersections(Head(schemas), Tail(schemas)))

\* `'${v}'` for each value of the enum, joined
EnumLiterals(values) == [i \in 1..Len(values) |-> <<TokS("literal", values[i])>>]

\* the formats whose case returns from generateStringSchema at once
FormatReturns(format) ==
  CASE format = "date-time" -> <<Tok("z.iso.datetime")>>
    [] format = "email" -> <<Tok("z.email")>>
    [] format \in {"uri", "url"} -> <<Tok("z.url")>>
    [] OTHER -> <<>>

\* the formats whose case appends a call to z.string() and breaks
FormatAppends(format) ==
  CASE format = "date" -> <<Tok("date")>>
    [] format = "time" -> <<Tok("time")>>
    [] format = "uuid" -> <<Tok("uuid")>>
    [] format = "ipv4" -> <<TokS("ip", "v4")>>
    [] format = "ipv6" -> <<TokS("ip", "v6")>>
    [] OTHER -> <<>>

RECURSIVE ReplaceAll(_, _, _)
\* text.replace(/c/g, by) on a text given as its characters
ReplaceAll(text, c, by) ==
  IF text = <<>> THEN <<>>
  ELSE (IF Head(text) = c THEN by ELSE <<Head(text)>>) \o ReplaceAll(Tail(text), c, by)

\* schema.pattern.replace(/\\/g, "\\\\").replace(/\//g, "\\/")
EscapePattern(pattern) == ReplaceAll(ReplaceAll(pattern, "\\", <<"\\", "\\">>), "/", <<"\\", "/">>)

RegexLiteral(text) == TokL("regex", "", <<[i \in 1..Len(text) |-> TokS("char", text[i])]>>)

\* the string constraints, in the order of the three ifs
StringConstraints(schema) ==
  (IF Has(schema.minLength) THEN <<TokN("min", schema.minLength[1])>> ELSE <<>>)
  \o (IF Has(schema.maxLength) THEN <<TokN("max", schema.maxLength[1])>> ELSE <<>>)
  \o (IF Has(schema.pattern) /\ schema.pattern[1] # <<>>
        THEN <<RegexLiteral(EscapePattern(schema.pattern[1]))>> ELSE <<>>)

generateStringSchema(schema) ==
  IF Has(schema.enum)
    THEN <<TokL("z.enum", "", EnumLiterals(schema.enum[1]))>>
  ELSE IF Has(schema.format) /\ schema.format[1] # "" /\ FormatReturns(schema.format[1]) # <<>>
    THEN FormatReturns(schema.format[1])
  ELSE <<Tok("z.string")>>
       \o (IF Has(schema.format) THEN FormatAppends(schema.format[1]) ELSE <<>>)
       \o StringConstraints(schema)

\* fault: a boolean-exclusive minimum is emitted as gt in addition to gte
LowerBound_twice(schema) ==
  (IF Has(schema.minimum)
     THEN <<TokN("gte", schema.minimum[1])>>
          \o (IF schema.exclusiveMinimum = <<BoolValue(TRUE)>>
                THEN <<TokN("gt", schema.minimum[1])>> ELSE <<>>)
     ELSE <<>>)
  \o (IF Has(schema.exclusiveMinimum) /\ schema.exclusiveMinimum[1].kind = "number"
        THEN <<TokN("gt", schema.exclusiveMinimum[1].n)>> ELSE <<>>)

\* minimum with exclusiveMinimum === true is gt, else gte; a numeric exclusiveMinimum is gt
LowerBound(schema) ==
  (IF Has(schema.minimum)
     THEN IF schema.exclusiveMinimum = <<BoolValue(TRUE)>>
            THEN <<TokN("gt", schema.minimum[1])>>
            ELSE <<TokN("gte", schema.minimum[1])>>
     ELSE <<>>)
  \o (IF Has(schema.exclusiveMinimum) /\ schema.exclusiveMinimum[1].kind = "number"
        THEN <<TokN("gt", schema.exclusiveMinimum[1].n)>> ELSE <<>>)

\* maximum with exclusiveMaximum === true is lt, else lte; a numeric exclusiveMaximum is lt
UpperBound(schema) ==
  (IF Has(schema.maximum)
     THEN IF schema.exclusiveMaximum = <<BoolValue(TRUE)>>
            THEN <<TokN("lt", schema.maximum[1])>>
            ELSE <<TokN("lte", schema.maximum[1])>>
     ELSE <<>>)
  \o (IF Has(schema.exclusiveMaximum) /\ schema.exclusiveMaximum[1].kind = "number"
        THEN <<TokN("lt", schema.exclusiveMaximum[1].n)>> ELSE <<>>)

MultipleOf(schema) ==
  IF Has(schema.multipleOf) THEN <<TokN("multipleOf", schema.multipleOf[1])>> ELSE <<>>

generateNumberSchema(schema) ==
  <<Tok("z.number")>> \o LowerBound(schema) \o UpperBound(schema) \o MultipleOf(schema)

generateIntegerSchema(schema) ==
  <<Tok("z.number"), Tok("int")>> \o LowerBound(schema) \o UpperBound(schema) \o MultipleOf(schema)

RECURSIVE generateZodCodeFromSchema(_)

\* schemas.map((s) => generateZodCodeFromSchema(s)): the first error raised ends the map
TranslateAll(schemas) == [i \in 1..Len(schemas) |-> generateZodCodeFromSchema(schemas[i])]

\* the items of a parsed JSON array: numbers, and objects with one field
JsonNumber(n) == [primitive |-> TRUE, v |-> n]
JsonObject(n) == [primitive |-> FALSE, v |-> n]

\* what a Set tells apart: primitives by value, objects by identity, and every
\* object of a parsed array is an object of its own
SetElement(items, i) ==
  IF items[i].primitive THEN [value |-> items[i].v, object |-> 0]
                        ELSE [value |-> 0, object |-> i]

\* the refinement of the generated code: new Set(items).size === items.length
UniqueItemsRefinement(items) ==
  Cardinality({SetElement(items, i) : i \in 1..Len(items)}) = Len(items)

generateArraySchema(schema) ==
  LET item == IF Has(schema.items) THEN generateZodCodeFromSchema(schema.items[1])
                                   ELSE Code(ZAny) IN
  IF item.error # "" THEN item
  ELSE Code(<<TokL("z.array", "", <<item.code>>)>>
            \o (IF Has(schema.minItems) THEN <<TokN("min", schema.minItems[1])>> ELSE <<>>)
            \o (IF Has(schema.maxItems) THEN <<TokN("max", schema.maxItems[1])>> ELSE <<>>)
            \o (IF IsTrue(schema.uniqueItems) THEN <<Tok("refine unique items")>> ELSE <<>>))

\* schema.required?.includes(name) || false
IsRequired(schema, name) ==
  Has(schema.required) /\ \E i \in 1..Len(schema.required[1]) : schema.required[1][i] = name

\* isRequired ? "" : ".optional()"
OptionalSuffix(isRequired) == IF isRequired THEN <<>> ELSE <<Tok("optional")>>

\* `${name}: ${zodCode}${optionalSuffix}`, with the comment of a deprecated property
PropertyCode(schema, property, zodCode) ==
  <<TokS("key", property.name)>> \o zodCode
  \o OptionalSuffix(IsRequired(schema, property.name))
  \o (IF IsTrue(property.schema.deprecated) THEN <<Tok("/* @deprecated */")>> ELSE <<>>)

\* the value of additionalProperties: a boolean or a schema
PolicyValue(b) == [kind |-> "boolean", b |-> b, schema |-> <<>>]
SchemaValue(schema) == [kind |-> "object", b |-> FALSE, schema |-> <<schema>>]

\* the additionalProperties branches of a schema without properties
RecordCode(schema) ==
  IF schema.additionalProperties = <<PolicyValue(FALSE)>>
    THEN Code(<<TokL("z.object", "", <<>>), Tok("strict")>>)
  ELSE IF Has(schema.additionalProperties) /\ schema.additionalProperties[1].kind = "object"
    THEN LET value == generateZodCodeFromSchema(schema.additionalProperties[1].schema[1]) IN
         IF value.error # "" THEN value
         ELSE Code(<<TokL("z.record", "", <<<<Tok("z.string")>>, value.code>>)>>)
  ELSE Code(<<TokL("z.record", "", <<<<Tok("z.string")>>, ZAny>>)>>)

\* the additionalProperties branches of a schema with properties
ObjectPolicy(schema) ==
  IF ~Has(schema.additionalProperties) THEN <<>>
  ELSE IF schema.additionalProperties[1].kind = "object"
    THEN <<Tok("passthrough"), Tok("/* additional properties allowed */")>>
  ELSE IF schema.additionalProperties[1].b THEN <<Tok("passthrough")>>
  ELSE <<Tok("strict")>>

generateObjectSchema(schema) ==
  IF ~Has(schema.properties) THEN RecordCode(schema)
  ELSE
    LET entries == schema.properties[1]
        codes == TranslateAll([i \in 1..Len(entries) |-> entries[i].schema]) IN
    IF FirstError(codes) # "" THEN Throws(FirstError(codes))
    ELSE Code(<<TokL("z.object", "",
                     [i \in 1..Len(entries) |-> PropertyCode(schema, entries[i], codes[i].code)])>>
              \o ObjectPolicy(schema)
              \o (IF Has(schema.minProperties)
                    THEN <<TokN("refine min properties", schema.minProperties[1])>> ELSE <<>>)
              \o (IF Has(schema.maxProperties)
                    THEN <<TokN("refine max properties", schema.maxProperties[1])>> ELSE <<>>))

generateBaseZodSchema(schema) ==
  CASE schema.type = <<"string">> -> Code(generateStringSchema(schema))
    [] schema.type = <<"number">> -> Code(generateNumberSchema(schema))
    [] schema.type = <<"integer">> -> Code(generateIntegerSchema(schema))
    [] schema.type = <<"boolean">> -> Code(<<Tok("z.boolean")>>)
    [] schema.type = <<"array">> -> generateArraySchema(schema)
    [] schema.type = <<"object">> -> generateObjectSchema(schema)
    [] OTHER -> Code(ZAny)

\* the oneOf branch: discriminated when schema.discriminator is there, else a plain union
UnionOf(schema, codes) ==
  IF Has(schema.discriminator)
    THEN <<TokL("z.discriminatedUnion", schema.discriminator[1], codes)>>
    ELSE <<TokL("z.union", "", codes)>>

\* the $ref and composition branches return what they composed; only a schema
\* that reaches the last lines has its nullable flag looked at
generateZodCodeFromSchema(schema) ==
  IF Has(schema.ref)
    THEN IF LastSegment(schema.ref[1]) # ""
           THEN Code(<<TokS("identifier", LastSegment(schema.ref[1]))>>)
           ELSE Code(ZAny)
  ELSE IF Has(schema.allOf)
    THEN LET schemas == TranslateAll(schema.allOf[1]) IN
         IF FirstError(schemas) # "" THEN Throws(FirstError(schemas))
         ELSE IF Len(schemas) = 1 THEN schemas[1]
         ELSE Reduce(CodesOf(schemas))
  ELSE IF Has(schema.anyOf)
    THEN LET schemas == TranslateAll(schema.anyOf[1]) IN
         IF FirstError(schemas) # "" THEN Throws(FirstError(schemas))
         ELSE Code(<<TokL("z.union", "", CodesOf(schemas))>>)
  ELSE IF Has(schema.oneOf)
    THEN LET schemas == TranslateAll(schema.oneOf[1]) IN
         IF FirstError(schemas) # "" THEN Throws(FirstError(schemas))
         ELSE Code(UnionOf(schema, CodesOf(schemas)))
  ELSE LET baseSchema == generateBaseZodSchema(schema) IN
       IF baseSchema.error # "" THEN baseSchema
       ELSE IF IsTrue(schema.nullable)
         THEN Code(baseSchema.code \o <<Tok("nullable")>>)
         ELSE baseSchema

(***************************************************************************)
(* The schemas the translator is called with: every keyword the generator  *)
(* of a type reads, present and absent, on its own and combined; the       *)
(* member lists and property lists are bounded.                            *)
(***************************************************************************)
Opt(values) == {<<>>} \cup {<<v>> : v \in values}
SeqsUpTo(S, n) == UNION {[1..k -> S] : k \in 0..n}

StringLeaf == [NoSchema EXCEPT !.type = <<"string">>]
PetRef == [NoSchema EXCEPT !.ref = <<"#/components/schemas/Pet">>]
NullableInteger == [NoSchema EXCEPT !.type = <<"integer">>, !.nullable = <<TRUE>>]
DeprecatedString == [NoSchema EXCEPT !.type = <<"string">>, !.deprecated = <<TRUE>>]
EmptyAllOf == [NoSchema EXCEPT !.allOf = <<<<>>>>]

MemberSchemas == {StringLeaf, PetRef, NullableInteger, EmptyAllOf}
PropertySchemas == {NullableInteger, DeprecatedString, EmptyAllOf}
PropertyNames == {"id", "name", "tag"}

StringSchemas ==
  {[NoSchema EXCEPT !.type = <<"string">>, !.enum = e, !.format = f, !.minLength = a,
                    !.maxLength = b, !.pattern = p, !.nullable = n] :
     e \in Opt({<<"a", "b">>}),
     f \in Opt({"date-time", "date", "time", "email", "uri", "url", "uuid", "ipv4", "ipv6",
                "hostname"}),
     a \in Opt({0, 1}), b \in Opt({5}), p \in Opt({<<>>, <<"^", "a", "/", "\\", "d", "$">>}),
     n \in Opt({TRUE})}

NumberSchemas ==
  {[NoSchema EXCEPT !.type = <<t>>, !.minimum = lo, !.exclusiveMinimum = xlo, !.maximum = hi,
                    !.exclusiveMaximum = xhi, !.multipleOf = m, !.nullable = n] :
     t \in {"number", "integer"},
     lo \in Opt({0, 1}), xlo \in Opt({BoolValue(TRUE), BoolValue(FALSE), NumberValue(2)}),
     hi \in Opt({9}), xhi \in Opt({BoolValue(TRUE), BoolValue(FALSE), NumberValue(8)}),
     m \in Opt({2}), n \in Opt({TRUE})}

ArraySchemas ==
  {[NoSchema EXCEPT !.type = <<"array">>, !.items = i, !.minItems = a, !.maxItems = b,
                    !.uniqueItems = u, !.nullable = n] :
     i \in Opt(MemberSchemas), a \in Opt({1}), b \in Opt({3}), u \in Opt(BOOLEAN),
     n \in Opt({TRUE})}

\* Object.entries(schema.properties): the names of an object are distinct
PropertyLists ==
  {ps \in SeqsUpTo([name : PropertyNames, schema : PropertySchemas], MaxProps) :
     \A i, j \in 1..Len(ps) : i # j => ps[i].name # ps[j].name}

ObjectSchemas ==
  {[NoSchema EXCEPT !.type = <<"object">>, !.properties = ps, !.required = r,
                    !.additionalProperties = ap, !.minProperties = a, !.maxProperties = b,
                    !.nullable = n] :
     ps \in Opt(PropertyLists),
     r \in Opt({<<>>, <<"id">>, <<"name", "ghost">>}),
     ap \in Opt({PolicyValue(FALSE), PolicyValue(TRUE), SchemaValue(StringLeaf),
                 SchemaValue(EmptyAllOf)}),
     a \in Opt({1}), b \in Opt({2}), n \in Opt({TRUE})}

OtherSchemas ==
  {[NoSchema EXCEPT !.type = t, !.nullable = n] :
     t \in Opt({"boolean", "null"}), n \in Opt({TRUE})}

MemberLists == SeqsUpTo(MemberSchemas, MaxMembers)

\* one composition keyword, with every member list
CompositionSchemas ==
  {[NoSchema EXCEPT !.allOf = <<ms>>, !.nullable = n] : ms \in MemberLists, n \in Opt({TRUE})}
  \cup {[NoSchema EXCEPT !.anyOf = <<ms>>, !.nullable = n] :
          ms \in MemberLists, n \in Opt({TRUE})}
  \cup {[NoSchema EXCEPT !.oneOf = <<ms>>, !.discriminator = d, !.nullable = n] :
          ms \in MemberLists, d \in Opt({"type"}), n \in Opt({TRUE})}

\* several of $ref, allOf, anyOf, oneOf and a type on one schema
MixedSchemas ==
  {[NoSchema EXCEPT !.ref = r, !.allOf = a, !.anyOf = b, !.oneOf = c, !.discriminator = d,
                    !.type = t, !.nullable = n] :
     r \in Opt({"#/components/schemas/Pet", "#/components/schemas/Pet/"}),
     a \in Opt({<<StringLeaf, PetRef>>}), b \in Opt({<<StringLeaf, PetRef>>}),
     c \in Opt({<<StringLeaf, PetRef>>}), d \in Opt({"type"}), t \in Opt({"string"}),
     n \in Opt({TRUE})}

SchemaNodes ==
  StringSchemas \cup NumberSchemas \cup ArraySchemas \cup ObjectSchemas \cup OtherSchemas
  \cup CompositionSchemas \cup MixedSchemas

InitTranslate ==
  /\ NoPipeline
  /\ call \in {[fn |-> "generateZodCodeFromSchema", schema |-> schema, state |-> "ready",
                error |-> "", code |-> <<>>] : schema \in SchemaNodes}

\* one call of generateZodCodeFromSchema returns its code or raises
Translate ==
  /\ call.state = "ready"
  /\ call.fn = "generateZodCodeFromSchema"
  /\ LET outcome == generateZodCodeFromSchema(call.schema) IN
     call' = [call EXCEPT !.state = IF outcome.error = "" THEN "returned" ELSE "raised",
                          !.error = outcome.error, !.code = outcome.code]
  /\ UNCHANGED engineVars

NextTranslate == Translate

SpecTranslate == InitTranslate /\ [][NextTranslate]_vars

(***************************************************************************)
(* generateZodSchemas: the components of a description, translated one     *)
(* after the other.  The calls generateZodCodeFromSchema makes of itself   *)
(* are taken one at a time: `pending` holds the schemas still to be        *)
(* translated, in call order.                                              *)
(***************************************************************************)
ComponentNames == {"Pet", "Owner", "Tag"}

ComponentRef(name) == [NoSchema EXCEPT !.ref = <<"#/components/schemas/" \o name>>]

\* the schemas of the components: they refer to components, themselves included
ComponentBodies ==
  {StringLeaf, EmptyAllOf, ComponentRef("Owner"),
   [NoSchema EXCEPT !.type = <<"object">>,
                    !.properties = <<<<[name |-> "parent", schema |-> ComponentRef("Pet")],
                                       [name |-> "owner", schema |-> ComponentRef("Owner")]>>>>],
   [NoSchema EXCEPT !.type = <<"object">>,
                    !.additionalProperties = <<SchemaValue(ComponentRef("Pet"))>>],
   [NoSchema EXCEPT !.type = <<"array">>, !.items = <<ComponentRef("Owner")>>],
   [NoSchema EXCEPT !.allOf = <<<<ComponentRef("Pet"), StringLeaf>>>>],
   [NoSchema EXCEPT !.oneOf = <<<<ComponentRef("Pet"), ComponentRef("Owner")>>>>,
                    !.discriminator = <<"type">>]}

\* Object.entries(oas.components.schemas): the names of the components are distinct
Documents ==
  {d \in SeqsUpTo([name : ComponentNames, schema : ComponentBodies], MaxComponents) :
     \A i, j \in 1..Len(d) : i # j => d[i].name # d[j].name}

\* the component of a name, when the description has it
ComponentOf(document, name) ==
  IF \E i \in 1..Len(document) : document[i].name = name
    THEN <<document[CHOOSE i \in 1..Len(document) : document[i].name = name].schema>>
    ELSE <<>>

\* fault: a reference is expanded into the schema of its component
NestedOfRef_inlined(document, schema) == ComponentOf(document, LastSegment(schema.ref[1]))

\* the $ref branch returns the name and translates nothing
NestedOfRef(document, schema) == <<>>

\* the schemas generateZodCodeFromSchema(schema) calls itself with, in call order
NestedSchemas(document, schema) ==
  IF Has(schema.ref) THEN NestedOfRef(document, schema)
  ELSE IF Has(schema.allOf) THEN schema.allOf[1]
  ELSE IF Has(schema.anyOf) THEN schema.anyOf[1]
  ELSE IF Has(schema.oneOf) THEN schema.oneOf[1]
  ELSE IF schema.type = <<"array">>
    THEN IF Has(schema.items) THEN <<schema.items[1]>> ELSE <<>>
  ELSE IF schema.type = <<"object">>
    THEN IF Has(schema.properties)
           THEN [i \in 1..Len(schema.properties[1]) |-> schema.properties[1][i].schema]
         ELSE IF Has(schema.additionalProperties)
                 /\ schema.additionalProperties[1].kind = "object"
           THEN <<schema.additionalProperties[1].schema[1]>>
         ELSE <<>>
  ELSE <<>>

InitSchemas ==
  /\ NoPipeline
  /\ call \in {[fn |-> "generateZodSchemas", document |-> d, state |-> "running", entry |-> 0,
                pending |-> <<>>, calls |-> 0, visited |-> <<>>, nested |-> 0,
                returned |-> <<>>, error |-> ""] : d \in Documents}

\* the loop of generateZodSchemas takes the next component; one that is itself a
\* reference is skipped
TranslateComponent ==
  /\ call.fn = "generateZodSchemas"
  /\ call.state = "running"
  /\ call.pending = <<>>
  /\ call.entry < Len(call.document)
  /\ LET schema == call.document[call.entry + 1].schema IN
     call' = [call EXCEPT !.entry = call.entry + 1,
                          !.pending = IF Has(schema.ref) THEN <<>> ELSE <<schema>>,
                          !.visited = <<>>, !.nested = 0, !.returned = <<>>]
  /\ UNCHANGED engineVars

\* one call of generateZodCodeFromSchema: a schema that nests none returns or
\* raises at once, another one queues the calls it makes
CallTranslator ==
  /\ call.fn = "generateZodSchemas"
  /\ call.state = "running"
  /\ call.pending # <<>>
  /\ call.calls < MaxCalls
  /\ LET schema == Head(call.pending)
         nested == NestedSchemas(call.document, schema)
         outcome == generateZodCodeFromSchema(schema) IN
     IF nested = <<>> /\ outcome.error # ""
       THEN call' = [call EXCEPT !.state = "raised", !.error = outcome.error,
                                 !.pending = <<>>, !.calls = call.calls + 1,
                                 !.visited = <<schema>>, !.nested = 0, !.returned = <<>>]
       ELSE call' = [call EXCEPT !.pending = nested \o Tail(call.pending),
                                 !.calls = call.calls + 1, !.visited = <<schema>>,
                                 !.nested = Len(nested),
                                 !.returned = IF nested = <<>> THEN <<outcome.code>> ELSE <<>>]
  /\ UNCHANGED engineVars

\* the loop is over: generateZodSchemas returns
ReturnSchemas ==
  /\ call.fn = "generateZodSchemas"
  /\ call.state = "running"
  /\ call.pending = <<>>
  /\ call.entry = Len(call.document)
  /\ call' = [call EXCEPT !.state = "returned"]
  /\ UNCHANGED engineVars

NextSchemas == TranslateComponent \/ CallTranslator \/ ReturnSchemas

\* the function is synchronous: it runs until it returns or raises
SpecSchemas == InitSchemas /\ [][NextSchemas]_vars /\ WF_vars(NextSchemas)

(***************************************************************************)
(* generateOperations and generateOperationsCode, as the zod-generator     *)
(* step calls them, and the operation count the ky-generator step reports. *)
(* A path template is the list of its words and separators; summary and    *)
(* description of an operation are copied as they are and left out.        *)
(***************************************************************************)
Methods == <<"get", "post", "put", "delete", "patch", "head", "options">>

PathTemplates == {<<"/", "pets">>, <<"/", "pets", "/", "{", "petId", "}">>,
                  <<"/", "pets", "/", "petId">>}

RECURSIVE Sanitize(_)
\* pathTemplate.replace(/[^a-zA-Z0-9]/g, "")
Sanitize(pathTemplate) ==
  IF pathTemplate = <<>> THEN ""
  ELSE (IF Head(pathTemplate) \in {"/", "{", "}"} THEN "" ELSE Head(pathTemplate))
       \o Sanitize(Tail(pathTemplate))

\* operation.operationId || `${method}${pathTemplate.replace(...)}`
OperationIdOf(operation, method, pathTemplate) ==
  IF operation.operationId # <<>> /\ operation.operationId[1] # ""
    THEN operation.operationId[1]
    ELSE method \o Sanitize(pathTemplate)

IntegerLeaf == [NoSchema EXCEPT !.type = <<"integer">>]

\* the parameters of an operation: a reference, or a parameter object
ParameterRef == [isRef |-> TRUE, name |-> "", in |-> "", required |-> <<>>, schema |-> <<>>]
ParameterObject(name, in, required, schema) ==
  [isRef |-> FALSE, name |-> name, in |-> in, required |-> required, schema |-> schema]

ParameterObjects ==
  {ParameterRef,
   ParameterObject("petId", "path", <<TRUE>>, <<IntegerLeaf>>),
   ParameterObject("petId", "query", <<TRUE>>, <<IntegerLeaf>>),
   ParameterObject("limit", "query", <<>>, <<IntegerLeaf>>),
   ParameterObject("q", "query", <<FALSE>>, <<>>),
   ParameterObject("X-Trace", "header", <<FALSE>>, <<StringLeaf>>),
   ParameterObject("session", "cookie", <<TRUE>>, <<StringLeaf>>),
   ParameterObject("tag", "query", <<TRUE>>, <<EmptyAllOf>>)}

\* content of a request body or of a response: the entry of application/json, if any
JsonContent(schema) == <<[json |-> <<[schema |-> schema]>>]>>
OtherContent == <<[json |-> <<>>]>>

\* x.content?.["application/json"]?.schema
JsonSchemaOf(x) ==
  IF x.content = <<>> THEN <<>>
  ELSE IF x.content[1].json = <<>> THEN <<>>
  ELSE x.content[1].json[1].schema

BodyRef == [isRef |-> TRUE, required |-> <<>>, content |-> <<>>]
RequestBodies ==
  {BodyRef} \cup
  {[isRef |-> FALSE, required |-> r, content |-> c] :
     r \in Opt(BOOLEAN),
     c \in {<<>>, OtherContent, JsonContent(<<>>), JsonContent(<<PetRef>>),
            JsonContent(<<EmptyAllOf>>)}}

ResponseRef == [isRef |-> TRUE, description |-> "", content |-> <<>>]
ResponseObjects ==
  {ResponseRef} \cup
  {[isRef |-> FALSE, description |-> d, content |-> c] :
     d \in {"", "ok"},
     c \in {<<>>, OtherContent, JsonContent(<<>>), JsonContent(<<PetRef>>),
            JsonContent(<<EmptyAllOf>>)}}

Statuses == {"200", "404", "default"}

\* Object.entries(operation.responses): the statuses of an operation are distinct
ResponseLists ==
  {rs \in SeqsUpTo([status : Statuses, response : ResponseObjects], MaxResponses) :
     \A i, j \in 1..Len(rs) : i # j => rs[i].status # rs[j].status}

ParameterLists == SeqsUpTo(ParameterObjects, MaxParams)

OperationIds == Opt({"", "listPets", "getpets"})

OperationObject(id, parameters, requestBody, responses) ==
  [operationId |-> id, parameters |-> parameters, requestBody |-> requestBody,
   responses |-> responses]

OkResponses == <<[status |-> "200", response |->
                    [isRef |-> FALSE, description |-> "ok", content |-> JsonContent(<<PetRef>>)]]>>

\* the operations of the descriptions: every parameter list, every request body
\* and every response list, one of them varied at a time
OperationObjects ==
  {OperationObject(<<>>, ps, <<>>, <<OkResponses>>) : ps \in Opt(ParameterLists)}
  \cup {OperationObject(<<>>, <<>>, b, <<OkResponses>>) : b \in Opt(RequestBodies)}
  \cup {OperationObject(<<>>, <<>>, <<>>, rs) : rs \in Opt(ResponseLists)}

\* the operations that differ by their id only
NamedOperations == {OperationObject(id, <<>>, <<>>, <<OkResponses>>) : id \in OperationIds}

NoOperations == [m \in {Methods[i] : i \in 1..Len(Methods)} |-> <<>>]

\* Object.entries(oas.paths): the templates of a description are distinct; a
\* path item holds an operation or none for each method
PathLists ==
  {<<[path |-> <<"/", "pets", "/", "{", "petId", "}">>,
      item |-> <<[NoOperations EXCEPT !["get"] = <<o>>]>>]>> : o \in OperationObjects}
  \cup
  {ps \in SeqsUpTo([path : PathTemplates,
                    item : Opt({[NoOperations EXCEPT !["get"] = g, !["post"] = p] :
                                  g, p \in Opt(NamedOperations)})], MaxPaths) :
     \A i, j \in 1..Len(ps) : i # j => ps[i].path # ps[j].path}

OasDocuments == {[paths |-> ps] : ps \in Opt(PathLists)}

\* generateZodCodeFromSchema on a schema that may be undefined
TranslateOptional(schema) ==
  IF schema = <<>> THEN Code(ZAny) ELSE generateZodCodeFromSchema(schema[1])

IsDeclared(param) == ~param.isRef

\* parameters.push({ name, in, required, schema: { zodCode, required } })
ParameterInfo(param, zodCode) ==
  [name |-> param.name, in |-> param.in, required |-> param.required = <<TRUE>>,
   schema |-> [zodCode |-> zodCode.code, required |-> param.required = <<TRUE>>],
   error |-> zodCode.error]

\* the loop over operation.parameters: references are skipped
ExtractParameters(operation) ==
  IF operation.parameters = <<>> THEN <<>>
  ELSE LET declared == SelectSeq(operation.parameters[1], IsDeclared) IN
       [i \in 1..Len(declared) |->
          ParameterInfo(declared[i], TranslateOptional(declared[i].schema))]

SchemaReference(zodCode, required) ==
  [zodCode |-> zodCode.code, required |-> required, error |-> zodCode.error]

\* the request body: taken from the JSON media type of a body that is no reference
ExtractRequestBody(operation) ==
  IF operation.requestBody = <<>> \/ operation.requestBody[1].isRef
     \/ JsonSchemaOf(operation.requestBody[1]) = <<>>
    THEN <<>>
    ELSE <<SchemaReference(TranslateOptional(JsonSchemaOf(operation.requestBody[1])),
                           operation.requestBody[1].required = <<TRUE>>)>>

IsResponseObject(entry) == ~entry.response.isRef

\* responseInfo: the status, the description, and the schema when content?.schema is there
ResponseInfo(entry, zodCode) ==
  [status |-> entry.status, description |-> entry.response.description,
   schema |-> IF JsonSchemaOf(entry.response) = <<>> THEN <<>>
              ELSE <<[zodCode |-> zodCode.code, required |-> TRUE]>>,
   error |-> IF JsonSchemaOf(entry.response) = <<>> THEN "" ELSE zodCode.error]

\* the loop over Object.entries(operation.responses): references are skipped
ExtractResponses(operation) ==
  IF operation.responses = <<>> THEN <<>>
  ELSE LET kept == SelectSeq(operation.responses[1], IsResponseObject) IN
       [i \in 1..Len(kept) |->
          ResponseInfo(kept[i], TranslateOptional(JsonSchemaOf(kept[i].response)))]

\* the pairs of a path and a method that hold an operation, in the order of the loops
OperationSlots(oas) ==
  IF oas.paths = <<>> THEN <<>>
  ELSE LET paths == oas.paths[1]
           slots == [k \in 1..(Len(paths) * Len(Methods)) |->
                       [entry |-> paths[((k - 1) \div Len(Methods)) + 1],
                        method |-> Methods[((k - 1) % Len(Methods)) + 1]]]
           Held(slot) == slot.entry.item # <<>> /\ slot.entry.item[1][slot.method] # <<>>
           held == SelectSeq(slots, Held) IN
       [k \in 1..Len(held) |->
          [path |-> held[k].entry.path, method |-> held[k].method,
           operation |-> held[k].entry.item[1][held[k].method][1]]]

\* the OperationInfo of an operation; error is the first error its translations raise
OperationInfo(slot) ==
  [operationId |-> OperationIdOf(slot.operation, slot.method, slot.path),
   method |-> slot.method, path |-> slot.path,
   parameters |-> ExtractParameters(slot.operation),
   requestBody |-> ExtractRequestBody(slot.operation),
   responses |-> ExtractResponses(slot.operation)]

ErrorIn(info) == [error |-> FirstError(info.parameters \o info.requestBody \o info.responses)]

\* what the loops return: the records, or the error of the first translation that raises
OperationsOrError(infos) ==
  [error |-> FirstError([k \in 1..Len(infos) |-> ErrorIn(infos[k])]),
   operations |-> IF FirstError([k \in 1..Len(infos) |-> ErrorIn(infos[k])]) = ""
                    THEN infos ELSE <<>>]

generateOperations(oas) ==
  OperationsOrError([k \in 1..Len(OperationSlots(oas)) |->
                       OperationInfo(OperationSlots(oas)[k])])

\* generateParamObject(op.parameters.filter((p) => p.in === location))
generateParamObject(parameters, location) ==
  LET InLocation(p) == p.in = location
      params == SelectSeq(parameters, InLocation) IN
  [i \in 1..Len(params) |->
     <<TokS("key", params[i].name)>> \o params[i].schema.zodCode
     \o (IF params[i].required THEN <<>> ELSE <<Tok("optional")>>)]

\* the entries of the generated `operations` object, in the order written
generateOperationsCode(operations) ==
  [k \in 1..Len(operations) |->
     [operationId |-> operations[k].operationId,
      method |-> operations[k].method, path |-> operations[k].path,
      params |-> generateParamObject(operations[k].parameters, "path"),
      queries |-> generateParamObject(operations[k].parameters, "query"),
      headers |-> generateParamObject(operations[k].parameters, "header"),
      requestBody |-> operations[k].requestBody,
      responses |-> [i \in 1..Len(operations[k].responses) |->
                       [status |-> operations[k].responses[i].status,
                        description |-> operations[k].responses[i].description,
                        schema |-> IF operations[k].responses[i].schema # <<>>
                                     THEN operations[k].responses[i].schema[1].zodCode
                                     ELSE <<Tok("z.void")>>]]]]

RECURSIVE OperationsById(_, _)
\* operations.reduce((acc, op) => { acc[op.operationId] = op; return acc }, {})
OperationsById(acc, operations) ==
  IF operations = <<>> THEN acc
  ELSE OperationsById(Put(acc, Head(operations).operationId, Head(operations)),
                      Tail(operations))

InitExtract ==
  /\ NoPipeline
  /\ call \in {[fn |-> "zodGenerator.process", oas |-> oas, state |-> "ready", error |-> "",
                operations |-> <<>>, code |-> <<>>, meta |-> EmptyMap, zodCount |-> 0,
                kyCount |-> 0] : oas \in OasDocuments}

\* the output of zodGenerator.process: the code of the operations, and in meta the
\* operations by id and their count
ZodOutput(c, extracted) ==
  IF extracted.error # ""
    THEN [c EXCEPT !.state = "raised", !.error = extracted.error]
    ELSE [c EXCEPT !.state = "generated",
                   !.operations = extracted.operations,
                   !.code = generateOperationsCode(extracted.operations),
                   !.meta = OperationsById(EmptyMap, extracted.operations),
                   !.zodCount = Len(extracted.operations)]

\* zodGenerator.process on a parsed description: the operations are extracted and
\* written, and counted in meta; a translation that raises ends the step
ZodGenerates ==
  /\ call.fn = "zodGenerator.process"
  /\ call.state = "ready"
  /\ call' = ZodOutput(call, generateOperations(call.oas))
  /\ UNCHANGED engineVars

\* kyGenerator.process on the output of zod-generator: it counts the keys of
\* meta.operations
KyGenerates ==
  /\ call.fn = "zodGenerator.process"
  /\ call.state = "generated"
  /\ call' = [call EXCEPT !.state = "counted", !.kyCount = Cardinality(DOMAIN call.meta)]
  /\ UNCHANGED engineVars

NextExtract == ZodGenerates \/ KyGenerates

SpecExtract == InitExtract /\ [][NextExtract]_vars

(***************************************************************************)
(* createKyValidationHooks(helpers).afterResponse, called by ky with a     *)
(* response whose body has not been read.  The hook is taken in two steps: *)
(* up to the await of clonedResponse.json(), and from there on.            *)
(***************************************************************************)
ContentTypes == Opt({"application/json", "application/json; charset=utf-8",
                     "APPLICATION/JSON", "text/plain"})

\* contentType?.includes("application/json")
IncludesJson(contentType) ==
  contentType \in {<<"application/json">>, <<"application/json; charset=utf-8">>}

\* the body of a response: JSON data that passes or fails validation, or text
\* that is no JSON
Bodies == {"valid data", "invalid data", "not JSON"}

\* helpers.validateResponseData: absent, validating, or raising an error of another kind
Helpers == {"undefined", "validateResponseData", "throws Error"}

\* what helpers.validateResponseData(data, operation, status) raises on parsed data
ValidateResponseData(helper, body) ==
  IF helper = "throws Error" THEN "Error"
  ELSE IF body = "invalid data" THEN "ValidationError"
  ELSE ""

HookFulfilled(value) == [kind |-> "fulfilled", value |-> value, error |-> ""]
HookRejected(error) == [kind |-> "rejected", value |-> "", error |-> error]

\* fault: an error thrown inside the outer try leaves the hook
OuterCatch_rethrown(error) == HookRejected(error)

\* catch (jsonError) { return response }
OuterCatch(error) == HookFulfilled("response")

InitHook ==
  /\ NoPipeline
  /\ call \in {[fn |-> "afterResponse", operation |-> o, helper |-> h, contentType |-> t,
                body |-> b, status |-> s, state |-> "ready",
                result |-> [kind |-> "pending", value |-> "", error |-> ""],
                log |-> <<>>] :
                 o \in Opt({"getPet"}), h \in Helpers, t \in ContentTypes, b \in Bodies,
                 s \in {200, 404}}

\* the hook up to its first await: it returns the response at once, or clones it
\* and reads the clone as JSON
HookCalled ==
  /\ call.fn = "afterResponse"
  /\ call.state = "ready"
  /\ call' = IF call.operation = <<>> \/ call.helper = "undefined"
                \/ ~IncludesJson(call.contentType)
               THEN [call EXCEPT !.state = "settled", !.result = HookFulfilled("response")]
               ELSE [call EXCEPT !.state = "awaits json"]
  /\ UNCHANGED engineVars

\* clonedResponse.json() settles: a rejection goes to the outer catch; parsed data
\* is validated, a ValidationError is logged and thrown to the outer catch, another
\* error returns the response
JsonSettles ==
  /\ call.fn = "afterResponse"
  /\ call.state = "awaits json"
  /\ LET raised == ValidateResponseData(call.helper, call.body) IN
     call' = IF call.body = "not JSON"
               THEN [call EXCEPT !.state = "settled", !.result = OuterCatch("SyntaxError")]
             ELSE IF raised = "ValidationError"
               THEN [call EXCEPT !.state = "settled", !.log = <<"ValidationError">>,
                                 !.result = OuterCatch("ValidationError")]
             ELSE [call EXCEPT !.state = "settled", !.result = HookFulfilled("response")]
  /\ UNCHANGED engineVars

NextHook == HookCalled \/ JsonSettles

SpecHook == InitHook /\ [][NextHook]_vars

(***************************************************************************)
(* createStandardPipeline: the built-in steps in their standard order,     *)
(* each with its default options, run one after the other as Pipeline.run  *)
(* does: a step's output is stored under the step's name, and a step that  *)
(* raises ends the run.                                                    *)
(***************************************************************************)
\* fault: the client generator is placed before the schema generator
createStandardPipeline_clientFirst ==
  <<"oas-parser", "ky-generator", "zod-generator", "ky-initializer", "validator-pipeline",
    "querykey-generator", "react-query-generator">>

createStandardPipeline ==
  <<"oas-parser", "zod-generator", "ky-initializer", "validator-pipeline", "ky-generator",
    "querykey-generator", "react-query-generator">>

validatorPipelineProcess(options, previousOutputs) ==
  LET inputStep == OrDefault(options.inputStep, "zod-generator") IN
  IF inputStep \notin DOMAIN previousOutputs
    THEN Raised(NoOutputFound(inputStep))
    ELSE IF ~previousOutputs[inputStep].operations
      THEN Raised(NoOperationsFound(inputStep))
      ELSE Returned("validator-client")

queryKeyGeneratorProcess(options, previousOutputs) ==
  LET oasInputStep == OrDefault(options.oasInputStep, "oas-parser") IN
  IF Not(ContentOf(previousOutputs, oasInputStep))
    THEN Raised(NoOutputFound(oasInputStep))
    ELSE Returned("querykeys")

\* the lookups of a step's process, with the options createStandardPipeline gives it
ProcessOf(name, previousOutputs) ==
  CASE name = "oas-parser" -> Returned("parsed-oas")
    [] name = "zod-generator" -> zodGeneratorProcess(NoOptions, previousOutputs)
    [] name = "ky-initializer" -> Returned("ky-initializer")
    [] name = "validator-pipeline" -> validatorPipelineProcess(NoOptions, previousOutputs)
    [] name = "ky-generator" -> kyGeneratorProcess(NoOptions, previousOutputs)
    [] name = "querykey-generator" -> queryKeyGeneratorProcess(NoOptions, previousOutputs)
    [] name = "react-query-generator" -> reactQueryGeneratorProcess(NoOptions, previousOutputs)

\* a failure of a step that is no missing dependency: no input file, a schema
\* that does not translate, code that does not format
StepFailed(name) == [message |-> "step failed", step |-> name]

InitStandard ==
  /\ NoPipeline
  /\ call = [fn |-> "createStandardPipeline", steps |-> createStandardPipeline, at |-> 0,
             previousOutputs |-> EmptyMap, state |-> "running", error |-> NoOutputFound("")]

\* the next step finds what it looks up and returns its output, which the run
\* stores under the step's name; only zod-generator's meta has operations
StepCompletes ==
  /\ call.fn = "createStandardPipeline"
  /\ call.state = "running"
  /\ call.at < Len(call.steps)
  /\ LET name == call.steps[call.at + 1] IN
     /\ ProcessOf(name, call.previousOutputs).state = "returned"
     /\ \E content \in Contents :
          call' = [call EXCEPT !.at = call.at + 1,
                               !.previousOutputs =
                                 Put(call.previousOutputs, name,
                                     [content |-> content,
                                      operations |-> name = "zod-generator"])]
  /\ UNCHANGED engineVars

\* the next step raises, for a missing dependency or for a failure of its own, and
\* the run ends with that error
StepRaises ==
  /\ call.fn = "createStandardPipeline"
  /\ call.state = "running"
  /\ call.at < Len(call.steps)
  /\ LET name == call.steps[call.at + 1]
         looked == ProcessOf(name, call.previousOutputs) IN
     call' = [call EXCEPT !.state = "failed",
                          !.error = IF looked.state = "raised" THEN looked.error
                                    ELSE StepFailed(name)]
  /\ UNCHANGED engineVars

\* every step has run
RunCompletes ==
  /\ call.fn = "createStandardPipeline"
  /\ call.state = "running"
  /\ call.at = Len(call.steps)
  /\ call' = [call EXCEPT !.state = "completed"]
  /\ UNCHANGED engineVars

NextStandard == StepCompletes \/ StepRaises \/ RunCompletes

SpecStandard == InitStandard /\ [][NextStandard]_vars

(***************************************************************************)
(* Vocabulary of the properties                                            *)
(***************************************************************************)
\* step j is the last of the steps before k that stores under its name
LastOfNameBefore(j, k) == \A i \in (j + 1)..(k - 1) : StepAt(i).name # StepAt(j).name

\* step j is the last of the steps before k that writes to its path
LastWriterBefore(j, k) ==
  \A i \in (j + 1)..(k - 1) : StepAt(i).outputFile # StepAt(j).outputFile

UniqueNames == \A i, j \in 1..NumSteps : i # j => StepAt(i).name # StepAt(j).name

\* the output map step k can read while its process runs
ReadableBy(k) == Shown(contexts[k].previousOutputs)

ProcessFailed == thrown.during = "process"

(***************************************************************************)
(* C1: when the process of step Sk raises an error, no step after Sk is    *)
(* ever invoked in that run, and every artifact file written by S1..Sk-1   *)
(* is still on disk, complete, with the text it was written with (where    *)
(* two of these steps write the same path, the text of the later one):     *)
(* nothing is rolled back.                                                 *)
(***************************************************************************)
C1_AbortKeepsArtifacts ==
  ProcessFailed =>
    LET k == thrown.step IN
    /\ \A i \in 1..Len(invoked) : invoked[i] <= k
    /\ pc = "failed"
    /\ \A j \in 1..(k - 1) :
         StepAt(j).outputFile # "" =>
           /\ j \in DOMAIN written
           /\ written[j].text = FileText(StepAt(j), produced[j])
           /\ outputPath(StepAt(j)) \in DOMAIN disk
           /\ LastWriterBefore(j, k) =>
                disk[outputPath(StepAt(j))] = [text |-> written[j].text, complete |-> TRUE]

\* Scenario C: three steps, the second throws, the first one's file is on disk
C1_Witness ==
  /\ NumSteps = 3
  /\ ProcessFailed
  /\ thrown.step = 2
  /\ StepAt(1).outputFile = "schemas.ts"
  /\ outputPath(StepAt(1)) \in DOMAIN disk
  /\ invoked = <<1, 2>>

(***************************************************************************)
(* C2: context accumulation.  While the process of Sk runs, the context    *)
(* it was handed contains, for every earlier step Sj of the run, an entry  *)
(* under Sj's name, and that entry is the output Sj returned (or, when a   *)
(* step between Sj and Sk has the same name, that step's output); no step  *)
(* in between has to read it.                                              *)
(***************************************************************************)
C2_ContextAccumulation ==
  (pc = "proc") =>
    \A j \in 1..(idx - 1) :
      /\ StepAt(j).name \in DOMAIN ReadableBy(idx)
      /\ LastOfNameBefore(j, idx) => ReadableBy(idx)[StepAt(j).name] = produced[j]

\* S3 is running, names are distinct, and S1's output is there for it
C2_Witness ==
  /\ pc = "proc"
  /\ idx = 3
  /\ UniqueNames
  /\ ReadableBy(3)[StepAt(1).name] = produced[1]
  /\ produced[1] # produced[2]

(***************************************************************************)
(* C3: context-only steps.  A step without an output file that completed   *)
(* has no file write issued or done for it, and its StepOutput is in the   *)
(* map under the step's own name (not under the name field of the output)  *)
(* where every later step of the run finds it when it is invoked.          *)
(***************************************************************************)
C3_ContextOnlySteps ==
  \A j \in DOMAIN produced :
    StepAt(j).outputFile = "" =>
      /\ j \notin DOMAIN written
      /\ \A w \in pendingWrite : w.step # j
      /\ StepAt(j).name \in DOMAIN outputs
      /\ produced[j].name \notin StepNames => produced[j].name \notin DOMAIN outputs
      /\ \A k \in DOMAIN contexts :
           k > j =>
             /\ StepAt(j).name \in DOMAIN seenAtInvoke[k]
             /\ LastOfNameBefore(j, k) => seenAtInvoke[k][StepAt(j).name] = produced[j]
             /\ (pc = "proc" /\ idx = k /\ LastOfNameBefore(j, k)) =>
                  ReadableBy(k)[StepAt(j).name] = produced[j]

\* a context-only first step whose output names itself differently, read by step 2
C3_Witness ==
  /\ pc = "proc"
  /\ idx = 2
  /\ StepAt(1).outputFile = ""
  /\ produced[1].name # StepAt(1).name
  /\ ReadableBy(2)[StepAt(1).name] = produced[1]
  /\ disk = EmptyMap


(***************************************************************************)
(* C4: the context map is append-only during a run: whatever the step      *)
(* list, a step of a run neither removes an entry of the map nor replaces  *)
(* it by a different StepOutput.                                           *)
(***************************************************************************)
C4_AppendOnly ==
  [][runNo' = runNo =>
       \A n \in DOMAIN outputs : n \in DOMAIN outputs' /\ outputs'[n] = outputs[n]]_vars

(***************************************************************************)
(* C5: strict sequencing.  At most one process is in flight, and while     *)
(* the process of a step runs every earlier step of the run has returned   *)
(* its output and, where it declares an output file, its write has         *)
(* completed; no write is in flight.                                       *)
(***************************************************************************)
InFlight ==
  {k \in DOMAIN contexts : k \notin DOMAIN produced /\ ~(ProcessFailed /\ thrown.step = k)}

C5_StrictSequencing ==
  /\ Cardinality(InFlight) <= 1
  /\ (pc = "proc") =>
       /\ InFlight = {idx}
       /\ pendingWrite = {}
       /\ \A j \in 1..(idx - 1) :
            /\ j \in DOMAIN produced
            /\ StepAt(j).outputFile # "" =>
                 /\ j \in DOMAIN written
                 /\ written[j] = [path |-> outputPath(StepAt(j)),
                                  text |-> FileText(StepAt(j), produced[j])]

\* step 2 runs after step 1's file was written whole
C5_Witness ==
  /\ pc = "proc"
  /\ idx = 2
  /\ StepAt(1).outputFile # ""
  /\ 1 \in DOMAIN written
  /\ disk[outputPath(StepAt(1))].complete

(***************************************************************************)
(* C6: no retries.  In a run the processes are invoked in list order,      *)
(* each at most once; after a failure none is invoked; and a step that     *)
(* completed stays completed for the rest of the run.                      *)
(***************************************************************************)
StepCompleted(k) == pc \in {"loop", "proc", "write", "done", "failed"} /\ k < idx

C6_NoRetries ==
  /\ [](/\ \A i \in 1..Len(invoked) : invoked[i] = i
        /\ thrown.step # 0 => (Len(invoked) = thrown.step /\ pc = "failed"))
  /\ [][runNo' = runNo =>
          /\ \A k \in 1..NumSteps : StepCompleted(k) => StepCompleted(k)'
          /\ pc = "failed" => invoked' = invoked]_vars

\* the second step failed after the first completed; the run stopped there
C6_Witness ==
  /\ pc = "failed"
  /\ thrown.step = 2
  /\ StepCompleted(1)
  /\ ~StepCompleted(2)
  /\ NumSteps >= 2

(***************************************************************************)
(* C7 as stated: the context handed to Sk is a snapshot.  At the moment    *)
(* of the invocation its output map holds exactly the outputs of S1..Sk-1  *)
(* and nothing done afterwards changes what the context shows.             *)
(***************************************************************************)
C7_Snapshot ==
  \A k \in DOMAIN contexts :
    /\ DOMAIN seenAtInvoke[k] = {StepAt(j).name : j \in 1..(k - 1)}
    /\ ReadableBy(k) = seenAtInvoke[k]

(***************************************************************************)
(* C7 amended: the context holds the engine's cumulative map itself, not   *)
(* a copy.  At the invocation of Sk it contains the outputs of S1..Sk-1    *)
(* under their names; at every later moment it shows what the engine's     *)
(* map holds, so once Sk has returned, Sk's own output is visible in the   *)
(* context that was handed to Sk.                                          *)
(***************************************************************************)
C7_LiveMap ==
  \A k \in DOMAIN contexts :
    /\ \A j \in 1..(k - 1) :
         /\ StepAt(j).name \in DOMAIN seenAtInvoke[k]
         /\ LastOfNameBefore(j, k) => seenAtInvoke[k][StepAt(j).name] = produced[j]
    /\ ReadableBy(k) = outputs
    /\ (k \in DOMAIN produced /\ \A i \in DOMAIN produced : i <= k) =>
         /\ StepAt(k).name \in DOMAIN ReadableBy(k)
         /\ ReadableBy(k)[StepAt(k).name] = produced[k]

\* the first step of a first run was handed an empty map and now sees its own output in it
C7_Witness ==
  /\ runNo = 1
  /\ 1 \in DOMAIN contexts
  /\ seenAtInvoke[1] = EmptyMap
  /\ 1 \in DOMAIN produced
  /\ ReadableBy(1) # seenAtInvoke[1]

(***************************************************************************)
(* C8 as stated: the error the run propagates is annotated with the name   *)
(* of the failing step.                                                    *)
(***************************************************************************)
C8_ErrorAnnotated ==
  (ProcessFailed /\ result.kind = "rejected") =>
    /\ "step" \in DOMAIN result.error
    /\ result.error.step = StepAt(thrown.step).name

(***************************************************************************)
(* C8 amended: when a step's process raises an error, the name of the      *)
(* failing step is in the error report the engine prints (the last line    *)
(* of the run's console, with the error), while the error the run          *)
(* propagates carries no step name.                                        *)
(***************************************************************************)
C8_FailureReported ==
  ProcessFailed =>
    /\ console # <<>>
    /\ console[Len(console)].level = "error"
    /\ console[Len(console)].step = StepAt(thrown.step).name
    /\ console[Len(console)].error = thrown.error
    /\ result.kind = "rejected"
    /\ "step" \notin DOMAIN result.error

\* the third step failed: the report names it, the two before completed
C8_Witness ==
  /\ ProcessFailed
  /\ thrown.step = 3
  /\ console[Len(console)].step = StepAt(3).name
  /\ StepAt(3).name # StepAt(1).name
  /\ StepAt(3).name # StepAt(2).name

(***************************************************************************)
(* C9: when a step's process raises an error E, the run reports the step   *)
(* name and rejects with exactly E: the same value, neither wrapped nor    *)
(* replaced.                                                               *)
(***************************************************************************)
C9_RethrowUnmodified ==
  ProcessFailed =>
    /\ result = Rejected(thrown.error)
    /\ \E i \in 1..Len(console) : console[i] = FailureReport(StepAt(thrown.step), thrown.error)

\* the first step raised "boom" and the run rejected with it
C9_Witness ==
  /\ ProcessFailed
  /\ thrown.step = 1
  /\ thrown.error = [message |-> "boom"]
  /\ result.kind = "rejected"
  /\ result.error = [message |-> "boom"]

(***************************************************************************)
(* C10: the configured input is read once per run, before the first step   *)
(* is invoked; every step of the run is handed the same inputs map; and    *)
(* when the read or the parse fails, no process is invoked and no file     *)
(* write is issued.                                                        *)
(***************************************************************************)
C10_InputLoadedOnce ==
  /\ loads <= 1
  /\ (config.input # "" /\ pc \in {"loop", "proc", "write", "done"}) =>
       /\ loads = 1
       /\ DOMAIN inputs = {config.input}
  /\ (config.input # "" /\ invoked # <<>>) => loads = 1
  /\ config.input = "" => (loads = 0 /\ inputs = EmptyMap)
  /\ \A k \in DOMAIN contexts : contexts[k].inputs = inputs
  /\ thrown.during = "load" =>
       /\ invoked = <<>>
       /\ produced = EmptyMap
       /\ written = EmptyMap
       /\ pendingWrite = {}
       /\ pc = "failed"
       /\ result.kind = "rejected"

\* two steps of a run were handed the one loaded input
C10_Witness ==
  /\ config.input = "api.json"
  /\ loads = 1
  /\ Len(invoked) = 2
  /\ contexts[1].inputs = contexts[2].inputs
  /\ contexts[2].inputs["api.json"].content = "petstore"

(***************************************************************************)
(* C11: every run starts from an empty context map: the first step of a    *)
(* run never sees an output produced by an earlier run of the same         *)
(* Pipeline instance.                                                      *)
(***************************************************************************)
C11_FreshContextEachRun ==
  (1 \in DOMAIN seenAtInvoke) => seenAtInvoke[1] = EmptyMap

(***************************************************************************)
(* C12: for every step that declares an output file exactly one file is    *)
(* written, at <outputDir>/<file>.  It begins with the provenance comment  *)
(* in the syntax the table assigns to the file's lower-cased extension     *)
(* (// for .ts, a block comment for .CSS and .HTML) followed by the        *)
(* serialized content; for an extension the table does not have (.json,    *)
(* none) the file is the serialized content alone.  Where a later step of  *)
(* the run declares the same file, the file is that step's.                *)
(***************************************************************************)
ExpectedText(file, output, time) ==
  LET body == [text |-> output.content.v, pretty |-> output.content.kind # "string"] IN
  CASE file = "schemas.ts" ->
         [start |-> "//", end |-> "", timestamp |-> time, content |-> body]
    [] file = "Theme.CSS" ->
         [start |-> "/*", end |-> "*/", timestamp |-> time, content |-> body]
    [] file = "index.HTML" ->
         [start |-> "<!--", end |-> "-->", timestamp |-> time, content |-> body]
    [] OTHER ->
         [start |-> "", end |-> "", timestamp |-> 0, content |-> body]

C12_ArtifactWritten ==
  /\ \A j \in DOMAIN written :
       /\ StepAt(j).outputFile # ""
       /\ written[j].path = <<config.outputDir, StepAt(j).outputFile>>
       /\ written[j].text = ExpectedText(StepAt(j).outputFile, produced[j], runNo)
       /\ \A w \in pendingWrite : w.step # j
  /\ Cardinality(pendingWrite) <= 1
  /\ \A p \in DOMAIN disk :
       \E j \in 1..NumSteps : StepAt(j).outputFile # "" /\ p = <<config.outputDir, StepAt(j).outputFile>>
  /\ \A j \in 1..NumSteps :
       (StepCompleted(j) /\ StepAt(j).outputFile # "") =>
         /\ j \in DOMAIN written
         /\ <<config.outputDir, StepAt(j).outputFile>> \in DOMAIN disk
         /\ (\A i \in (j + 1)..NumSteps :
                i <= idx => StepAt(i).outputFile # StepAt(j).outputFile) =>
              disk[<<config.outputDir, StepAt(j).outputFile>>] =
                [text |-> written[j].text, complete |-> TRUE]

\* a style sheet with an upper-case extension was written with a block comment
C12_Witness ==
  /\ pc = "done"
  /\ StepAt(1).outputFile = "Theme.CSS"
  /\ 1 \in DOMAIN written
  /\ disk[<<"oax", "Theme.CSS">>].text.start = "/*"
  /\ disk[<<"oax", "Theme.CSS">>].text.end = "*/"
  /\ disk[<<"oax", "Theme.CSS">>].text.timestamp = runNo

(***************************************************************************)
(* C13 as stated: a built-in step fails with "No output found from step    *)
(* <name>" when its input step name has no entry in the context map, and   *)
(* only then: whenever it fails this way, <name> is absent from the map.   *)
(***************************************************************************)
FailedNoOutput ==
  call.state = "raised" /\ call.error.message = "No output found from step"

\* the names the called step reads, in the order it checks them
NamesRead ==
  CASE call.fn = "zodGenerator" -> <<OrDefault(call.options.inputStep, "oas-parser")>>
    [] call.fn = "kyGenerator" -> <<OrDefault(call.options.inputStep, "zod-generator")>>
    [] call.fn = "reactQueryGenerator" ->
         <<OrDefault(call.options.oasInputStep, "oas-parser"),
           OrDefault(call.options.clientInputStep, "ky-generator"),
           OrDefault(call.options.queryKeyInputStep, "querykey-generator"),
           OrDefault(call.options.schemaInputStep, "zod-generator")>>

Absent(name) == name \notin DOMAIN call.previousOutputs

EmptyContent(name) ==
  /\ name \in DOMAIN call.previousOutputs
  /\ call.previousOutputs[name].content = [kind |-> "string", v |-> ""]

C13_OnlyWhenAbsent ==
  (call.state \in {"raised", "returned"}) =>
    /\ (\E i \in 1..Len(NamesRead) : Absent(NamesRead[i])) => FailedNoOutput
    /\ FailedNoOutput => Absent(call.error.step)

(***************************************************************************)
(* C13 amended: a built-in step fails with "No output found from step      *)
(* <name>" exactly when one of the names it reads is unusable, and the     *)
(* error names the first unusable one in the order the step checks them.   *)
(* For the client generator unusable means absent from the map; for the    *)
(* schema generator and the hooks generator it means absent or present     *)
(* with an empty content.                                                  *)
(***************************************************************************)
Unusable(name) ==
  IF call.fn = "kyGenerator" THEN Absent(name) ELSE Absent(name) \/ EmptyContent(name)

C13_AbsentOrEmpty ==
  (call.state \in {"raised", "returned"}) =>
    /\ FailedNoOutput <=> \E i \in 1..Len(NamesRead) : Unusable(NamesRead[i])
    /\ FailedNoOutput =>
         \E i \in 1..Len(NamesRead) :
           /\ call.error.step = NamesRead[i]
           /\ Unusable(NamesRead[i])
           /\ \A h \in 1..(i - 1) : ~Unusable(NamesRead[h])

\* the schema generator found an entry of the parser with an empty content
C13_Witness ==
  /\ call.fn = "zodGenerator"
  /\ FailedNoOutput
  /\ call.error.step = "oas-parser"
  /\ "oas-parser" \in DOMAIN call.previousOutputs

(***************************************************************************)
(* C15: translate is total: for every schema, a composition with an empty  *)
(* member list and a schema without a recognized type included, it         *)
(* returns a fragment and never raises.                                    *)
(***************************************************************************)
C15_TranslateTotal == call.state # "raised"

\* the call of the translator is over; it returned code
Called == call.fn = "generateZodCodeFromSchema" /\ call.state \in {"returned", "raised"}
Translated == call.fn = "generateZodCodeFromSchema" /\ call.state = "returned"

\* a schema without $ref and composition keywords: it is translated by its type
ByType(schema) ==
  ~Has(schema.ref) /\ ~Has(schema.allOf) /\ ~Has(schema.anyOf) /\ ~Has(schema.oneOf)

LastToken(code) == code[Len(code)]

(***************************************************************************)
(* C16: nullable is applied after composition resolution: for every schema *)
(* with nullable = true that translates, composition schemas included,     *)
(* the fragment is the composed fragment followed by the nullable marker.  *)
(***************************************************************************)
C16_NullableAfterComposition ==
  (Translated /\ IsTrue(call.schema.nullable)) =>
    /\ call.code # <<>>
    /\ LastToken(call.code) = Tok("nullable")

(***************************************************************************)
(* C17: required/optional partition: an object schema with properties P    *)
(* and required names R translates to an object whose entries are exactly  *)
(* the names of P, in order, those in R without the optional suffix and    *)
(* those in P \ R with it.                                                 *)
(***************************************************************************)
HasOptional(entry) == \E k \in 1..Len(entry) : entry[k] = Tok("optional")

PartitionEmitted(schema, code) ==
  LET P == schema.properties[1] IN
  /\ code # <<>>
  /\ code[1].f = "z.object"
  /\ Len(code[1].l) = Len(P)
  /\ \A i \in 1..Len(P) :
       /\ code[1].l[i][1] = TokS("key", P[i].name)
       /\ HasOptional(code[1].l[i]) <=>
            ~(Has(schema.required) /\
              \E k \in 1..Len(schema.required[1]) : schema.required[1][k] = P[i].name)

C17_RequiredOptionalPartition ==
  (Called /\ ByType(call.schema) /\ call.schema.type = <<"object">>
     /\ Has(call.schema.properties)) =>
    /\ call.state = "returned"
    /\ PartitionEmitted(call.schema, call.code)

(***************************************************************************)
(* C18: bound ordering: every string schema with minLength = a and         *)
(* maxLength = b translates to a chain that has both constraints, min(a)   *)
(* before max(b).  (A schema with an enum is translated by its values      *)
(* alone and is left out here.)                                            *)
(***************************************************************************)
C18_MinBeforeMax ==
  (Called /\ ByType(call.schema) /\ call.schema.type = <<"string">>
     /\ ~Has(call.schema.enum)
     /\ Has(call.schema.minLength) /\ Has(call.schema.maxLength)) =>
    /\ call.state = "returned"
    /\ \E i, j \in 1..Len(call.code) :
         /\ i < j
         /\ call.code[i] = TokN("min", call.schema.minLength[1])
         /\ call.code[j] = TokN("max", call.schema.maxLength[1])

(***************************************************************************)
(* C19: discriminated union selection: a schema with oneOf and a           *)
(* discriminator property name translates to the tagged union keyed on     *)
(* that property over its member fragments, never to a plain union; a      *)
(* oneOf without discriminator and every anyOf translate to a plain union  *)
(* over the member fragments.                                              *)
(***************************************************************************)
UnionOver(code, f, key, members) ==
  /\ Len(code) = 1
  /\ code[1].f = f
  /\ code[1].s = key
  /\ Len(code[1].l) = Len(members)
  /\ \A i \in 1..Len(members) : code[1].l[i] = generateZodCodeFromSchema(members[i]).code

C19_DiscriminatedUnion ==
  /\ (Called /\ Has(call.schema.oneOf) /\ Has(call.schema.discriminator)) =>
       /\ call.state = "returned"
       /\ UnionOver(call.code, "z.discriminatedUnion", call.schema.discriminator[1],
                    call.schema.oneOf[1])
  /\ (Called /\ Has(call.schema.oneOf) /\ ~Has(call.schema.discriminator)) =>
       /\ call.state = "returned"
       /\ UnionOver(call.code, "z.union", "", call.schema.oneOf[1])
  /\ (Called /\ Has(call.schema.anyOf)) =>
       /\ call.state = "returned"
       /\ UnionOver(call.code, "z.union", "", call.schema.anyOf[1])

(***************************************************************************)
(* C20: numeric bounds: a number or integer schema, under any combination  *)
(* of minimum/maximum with boolean or numeric exclusiveMinimum/            *)
(* exclusiveMaximum, translates to a chain in which each declared bound    *)
(* appears exactly once: minimum as gte, or as gt when exclusiveMinimum    *)
(* is true; a numeric exclusiveMinimum as gt; the same for the upper side  *)
(* with lte and lt; and the chain has no other bound.                      *)
(***************************************************************************)
Count(code, token) == Cardinality({i \in 1..Len(code) : code[i] = token})
CountCalls(code, names) == Cardinality({i \in 1..Len(code) : code[i].f \in names})

IsNumber(value) == Has(value) /\ value[1].kind = "number"

BoundsOnce(code, bound, exclusive, inclusiveCall, exclusiveCall) ==
  /\ Has(bound) =>
       IF exclusive = <<BoolValue(TRUE)>>
         THEN Count(code, TokN(exclusiveCall, bound[1])) = 1
         ELSE Count(code, TokN(inclusiveCall, bound[1])) = 1
  /\ IsNumber(exclusive) => Count(code, TokN(exclusiveCall, exclusive[1].n)) = 1
  /\ CountCalls(code, {inclusiveCall, exclusiveCall}) =
       (IF Has(bound) THEN 1 ELSE 0) + (IF IsNumber(exclusive) THEN 1 ELSE 0)

C20_NumericBoundsOnce ==
  (Called /\ ByType(call.schema) /\ call.schema.type \in {<<"number">>, <<"integer">>}) =>
    /\ call.state = "returned"
    /\ BoundsOnce(call.code, call.schema.minimum, call.schema.exclusiveMinimum, "gte", "gt")
    /\ BoundsOnce(call.code, call.schema.maximum, call.schema.exclusiveMaximum, "lte", "lt")

\* an integer with an exclusive minimum in the boolean style and both kinds of maximum
C20_Witness ==
  /\ Translated
  /\ call.schema.type = <<"integer">>
  /\ call.schema.minimum = <<1>>
  /\ call.schema.exclusiveMinimum = <<BoolValue(TRUE)>>
  /\ call.schema.maximum = <<9>>
  /\ call.schema.exclusiveMaximum = <<NumberValue(8)>>
  /\ call.code = <<Tok("z.number"), Tok("int"), TokN("gt", 1), TokN("lte", 9), TokN("lt", 8)>>

(***************************************************************************)
(* C27: for every string schema without enum the fragment is the           *)
(* validator of its format (the bare string validator when the format is   *)
(* absent or not recognized) followed by its minLength, maxLength and      *)
(* escaped pattern constraints, for each of the formats date-time, date,   *)
(* time, email, uri, uuid, ipv4 and ipv6.                                  *)
(***************************************************************************)
ExpectedValidator(format) ==
  CASE format = <<"date-time">> -> <<Tok("z.iso.datetime")>>
    [] format = <<"date">> -> <<Tok("z.string"), Tok("date")>>
    [] format = <<"time">> -> <<Tok("z.string"), Tok("time")>>
    [] format = <<"email">> -> <<Tok("z.email")>>
    [] format \in {<<"uri">>, <<"url">>} -> <<Tok("z.url")>>
    [] format = <<"uuid">> -> <<Tok("z.string"), Tok("uuid")>>
    [] format = <<"ipv4">> -> <<Tok("z.string"), TokS("ip", "v4")>>
    [] format = <<"ipv6">> -> <<Tok("z.string"), TokS("ip", "v6")>>
    [] OTHER -> <<Tok("z.string")>>

\* the pattern ^a/\d$ of the model, escaped for a regex literal: ^a\/\\d$
ExpectedRegex(pattern) ==
  IF pattern = <<<<"^", "a", "/", "\\", "d", "$">>>>
    THEN <<TokL("regex", "", <<[i \in 1..8 |->
             TokS("char", <<"^", "a", "\\", "/", "\\", "\\", "d", "$">>[i])]>>)>>
    ELSE <<>>

ExpectedStringCode(schema) ==
  ExpectedValidator(schema.format)
  \o (IF Has(schema.minLength) THEN <<TokN("min", schema.minLength[1])>> ELSE <<>>)
  \o (IF Has(schema.maxLength) THEN <<TokN("max", schema.maxLength[1])>> ELSE <<>>)
  \o ExpectedRegex(schema.pattern)
  \o (IF IsTrue(schema.nullable) THEN <<Tok("nullable")>> ELSE <<>>)

C27_FormatThenConstraints ==
  (Called /\ ByType(call.schema) /\ call.schema.type = <<"string">>
     /\ ~Has(call.schema.enum)) =>
    /\ call.state = "returned"
    /\ call.code = ExpectedStringCode(call.schema)

(***************************************************************************)
(* C28: a schema with an allOf of exactly one member translates to that    *)
(* member's fragment; with n >= 2 members it translates to a left-nested   *)
(* chain of n - 1 binary intersections over the member fragments in        *)
(* declaration order; and this is so when anyOf or oneOf are on the same   *)
(* schema too.                                                             *)
(***************************************************************************)
RECURSIVE LeftNested(_, _)
\* ((m1 & m2) & ...) & mn
LeftNested(codes, n) ==
  IF n = 1 THEN codes[1]
  ELSE <<TokL("z.intersection", "", <<LeftNested(codes, n - 1), codes[n]>>)>>

MemberCodes(members) == [i \in 1..Len(members) |-> generateZodCodeFromSchema(members[i]).code]

IntersectionOfMembers(schema, code) ==
  code = LeftNested(MemberCodes(schema.allOf[1]), Len(schema.allOf[1]))

C28_AllOfIntersection ==
  (Called /\ ~Has(call.schema.ref) /\ Has(call.schema.allOf)
     /\ Len(call.schema.allOf[1]) >= 1) =>
    /\ call.state = "returned"
    /\ IntersectionOfMembers(call.schema, call.code)

(***************************************************************************)
(* C22: an object schema with no declared properties translates by its     *)
(* additionalProperties policy alone: false gives an empty closed object,  *)
(* true or absent an open untyped string-keyed record, and a schema a      *)
(* string-keyed record whose value type is the translation of that schema. *)
(***************************************************************************)
NoDeclaredProperties(schema) == ~Has(schema.properties) \/ schema.properties = <<<<>>>>

ExpectedRecord(schema) ==
  IF schema.additionalProperties = <<PolicyValue(FALSE)>>
    THEN <<TokL("z.object", "", <<>>), Tok("strict")>>
  ELSE IF Has(schema.additionalProperties) /\ schema.additionalProperties[1].kind = "object"
    THEN <<TokL("z.record", "",
                <<<<Tok("z.string")>>,
                  generateZodCodeFromSchema(schema.additionalProperties[1].schema[1]).code>>)>>
  ELSE <<TokL("z.record", "", <<<<Tok("z.string")>>, <<Tok("z.any")>>>>)>>

C22_RecordByPolicy ==
  (Called /\ ByType(call.schema) /\ call.schema.type = <<"object">>
     /\ NoDeclaredProperties(call.schema)) =>
    /\ call.state = "returned"
    /\ call.code = ExpectedRecord(call.schema)
                     \o (IF IsTrue(call.schema.nullable) THEN <<Tok("nullable")>> ELSE <<>>)

(***************************************************************************)
(* C21: uniqueness refinement: an array schema with uniqueItems = true     *)
(* translates to a fragment with the refinement that accepts an array      *)
(* exactly when its distinct items are as many as its length (it rejects   *)
(* [1,1] and accepts [1,2]), and the refinement comes after the minItems   *)
(* and maxItems constraints.                                               *)
(***************************************************************************)
ValidatedArrays == SeqsUpTo({JsonNumber(1), JsonNumber(2), JsonObject(1)}, MaxItems)

C21_UniqueItemsRefinement ==
  (Called /\ ByType(call.schema) /\ call.schema.type = <<"array">>
     /\ IsTrue(call.schema.uniqueItems)) =>
    /\ call.state = "returned"
    /\ Count(call.code, Tok("refine unique items")) = 1
    /\ \A j, k \in 1..Len(call.code) :
         (call.code[j].f \in {"min", "max"} /\ call.code[k] = Tok("refine unique items")) => j < k
    /\ Has(call.schema.minItems) => Count(call.code, TokN("min", call.schema.minItems[1])) = 1
    /\ Has(call.schema.maxItems) => Count(call.code, TokN("max", call.schema.maxItems[1])) = 1
    /\ ~UniqueItemsRefinement(<<JsonNumber(1), JsonNumber(1)>>)
    /\ UniqueItemsRefinement(<<JsonNumber(1), JsonNumber(2)>>)
    /\ \A items \in ValidatedArrays :
         UniqueItemsRefinement(items) <=>
           Cardinality({items[i] : i \in 1..Len(items)}) = Len(items)

(***************************************************************************)
(* C23                                                                     *)
(***************************************************************************)
RECURSIVE SchemaSize(_)
RECURSIVE SizeOfAll(_)
SizeOfAll(schemas) ==
  IF schemas = <<>> THEN 0 ELSE SchemaSize(Head(schemas)) + SizeOfAll(Tail(schemas))

\* the schema objects written in a schema, itself included, under every keyword
SchemaSize(schema) ==
  1 + (IF Has(schema.allOf) THEN SizeOfAll(schema.allOf[1]) ELSE 0)
    + (IF Has(schema.anyOf) THEN SizeOfAll(schema.anyOf[1]) ELSE 0)
    + (IF Has(schema.oneOf) THEN SizeOfAll(schema.oneOf[1]) ELSE 0)
    + (IF Has(schema.items) THEN SchemaSize(schema.items[1]) ELSE 0)
    + (IF Has(schema.properties)
         THEN SizeOfAll([i \in 1..Len(schema.properties[1]) |->
                           schema.properties[1][i].schema])
         ELSE 0)
    + (IF Has(schema.additionalProperties) /\ schema.additionalProperties[1].kind = "object"
         THEN SchemaSize(schema.additionalProperties[1].schema[1]) ELSE 0)

DocumentSize(document) == SizeOfAll([i \in 1..Len(document) |-> document[i].schema])

\* a component of the description refers to itself, and one to another that
\* refers back
SelfReference(document) ==
  \E i \in 1..Len(document) :
    LET nested == NestedSchemas(document, document[i].schema) IN
    \E k \in 1..Len(nested) : nested[k] = ComponentRef(document[i].name)

MutualReference(document) ==
  \E i, j \in 1..Len(document) :
    /\ i # j
    /\ LET fromI == NestedSchemas(document, document[i].schema)
           fromJ == NestedSchemas(document, document[j].schema) IN
       /\ \E k \in 1..Len(fromI) : fromI[k] = ComponentRef(document[j].name)
       /\ \E k \in 1..Len(fromJ) : fromJ[k] = ComponentRef(document[i].name)

\* the call just made was given a reference that names a component
ReferenceVisited ==
  /\ call.visited # <<>>
  /\ Has(call.visited[1].ref)
  /\ LastSegment(call.visited[1].ref[1]) # ""

ReferenceNotExpanded ==
  /\ ReferenceVisited =>
       /\ call.nested = 0
       /\ call.returned = <<<<TokS("identifier", LastSegment(call.visited[1].ref[1]))>>>>
  /\ call.calls <= DocumentSize(call.document)

\* C23: a call given a reference returns the last segment of its path as an
\* identifier and translates nothing of the component, so the translator is
\* called at most once for each schema written in the description, and the
\* translation of the components ends (it returns or raises), also when the
\* components refer to themselves and to each other.
C23_ReferenceNotExpanded ==
  [](ReferenceNotExpanded) /\ <>(call.state \in {"returned", "raised"})

C23_Witness ==
  /\ call.state = "returned"
  /\ SelfReference(call.document)
  /\ MutualReference(call.document)
  /\ ReferenceVisited
  /\ call.calls = DocumentSize(call.document)

(***************************************************************************)
(* C24, C25, C30                                                           *)
(***************************************************************************)
\* zodGenerator.process was called on a description
Extracted == call.fn = "zodGenerator.process" /\ call.state # "ready"

\* the parameters an operation declares, references left aside
DeclaredParameters(operation) ==
  IF operation.parameters = <<>> THEN <<>>
  ELSE SelectSeq(operation.parameters[1], IsDeclared)

\* the names and required flags of a group of the generated record
GroupOf(record, location) ==
  LET group == CASE location = "path" -> record.params
                 [] location = "query" -> record.queries
                 [] location = "header" -> record.headers
                 [] OTHER -> <<>> IN
  [i \in 1..Len(group) |->
     [name |-> group[i][1].s, required |-> group[i][Len(group[i])] # Tok("optional")]]

\* the declared parameters of a location, by name and required flag
DeclaredIn(operation, location) ==
  LET InLocation(p) == p.in = location
      declared == SelectSeq(DeclaredParameters(operation), InLocation) IN
  [i \in 1..Len(declared) |->
     [name |-> declared[i].name, required |-> declared[i].required = <<TRUE>>]]

Groups == {"path", "query", "header"}

Partitioned(operation, record) ==
  /\ \A g \in Groups : GroupOf(record, g) = DeclaredIn(operation, g)
  /\ \A i \in 1..Len(DeclaredParameters(operation)) :
       Cardinality({g \in Groups : DeclaredParameters(operation)[i].in = g}) = 1

PetIdOnly == <<ParameterObject("petId", "path", <<TRUE>>, <<IntegerLeaf>>)>>

\* C24: every declared parameter of every operation is in exactly one of the
\* groups params, queries and headers of the operation's record, the one of its
\* location, with its name and its required flag; an operation whose only
\* parameter is the required integer path parameter petId has that one path
\* parameter and empty query and header groups.
C24_ParameterPartition ==
  Extracted =>
    /\ call.state # "raised"
    /\ Len(call.code) = Len(OperationSlots(call.oas))
    /\ \A k \in 1..Len(call.code) :
         LET operation == OperationSlots(call.oas)[k].operation IN
         /\ Partitioned(operation, call.code[k])
         /\ operation.parameters = <<PetIdOnly>> =>
              /\ call.code[k].params = <<<<TokS("key", "petId"), Tok("z.number"), Tok("int")>>>>
              /\ call.code[k].queries = <<>>
              /\ call.code[k].headers = <<>>

\* the statuses an operation declares, with their responses
DeclaredResponses(operation) ==
  IF operation.responses = <<>> THEN <<>> ELSE operation.responses[1]

\* the schema a declared response is expected to have in the response map
ExpectedResponseSchema(response) ==
  IF response.isRef \/ JsonSchemaOf(response) = <<>>
    THEN <<Tok("z.void")>>
    ELSE generateZodCodeFromSchema(JsonSchemaOf(response)[1]).code

Retained(operation, record) ==
  \A i \in 1..Len(DeclaredResponses(operation)) :
    \E j \in 1..Len(record.responses) :
      /\ record.responses[j].status = DeclaredResponses(operation)[i].status
      /\ record.responses[j].schema =
           ExpectedResponseSchema(DeclaredResponses(operation)[i].response)

\* C25: every status an operation declares, "default" included, is a key of the
\* response map of the operation's record, with the translated schema when the
\* response has a JSON schema and with z.void() otherwise.
C25_ResponsesRetained ==
  Extracted =>
    /\ call.state # "raised"
    /\ Len(call.code) = Len(OperationSlots(call.oas))
    /\ \A k \in 1..Len(call.code) : Retained(OperationSlots(call.oas)[k].operation, call.code[k])

\* C30: the operations map of zod-generator's meta, keyed by operationId, has
\* one entry for each extracted operation, under the declared id or under the
\* method followed by the alphanumeric characters of the path, so the
\* operationCount of zod-generator is the operationCount of ky-generator.
C30_OperationCounts ==
  (call.fn = "zodGenerator.process" /\ call.state = "counted") =>
    /\ Cardinality(DOMAIN call.meta) = Len(call.operations)
    /\ call.zodCount = call.kyCount
    /\ \A k \in 1..Len(call.operations) :
         /\ call.operations[k].operationId \in DOMAIN call.meta
         /\ call.meta[call.operations[k].operationId] = call.operations[k]

(***************************************************************************)
(* C26                                                                     *)
(***************************************************************************)
\* the hook validated the parsed body of the response and validation failed
ValidationFailed ==
  /\ call.operation # <<>>
  /\ call.helper = "validateResponseData"
  /\ IncludesJson(call.contentType)
  /\ call.body = "invalid data"

MissingDependency(error) ==
  error.message \in {"No output found from step", "No operations found in step"}

\* C29: in a run of the standard step list no step raises a missing-dependency
\* error: when the steps before it have completed, what a step looks up by
\* default is in its context, stored by a step placed before it.
C29_StandardOrder ==
  (call.fn = "createStandardPipeline") =>
    /\ call.state = "failed" => ~MissingDependency(call.error)
    /\ (call.state = "running" /\ call.at < Len(call.steps)) =>
         ProcessOf(call.steps[call.at + 1], call.previousOutputs).state = "returned"
    /\ DOMAIN call.previousOutputs = {call.steps[k] : k \in 1..call.at}

C29_Witness ==
  /\ call.fn = "createStandardPipeline"
  /\ call.state = "completed"
  /\ call.at = Len(createStandardPipeline)
  /\ "react-query-generator" \in DOMAIN call.previousOutputs

====
